---------------------------- MODULE Spec2Model ----------------------------
(***************************************************************************)
(* Model of the periodic monitoring scheduler of edge-agent                *)
(* (src/scheduler/main.py) together with the web UI's session-file         *)
(* operations (src/web_ui/server.py).                                      *)
(*                                                                         *)
(* Time is wall-clock minutes.  Python's None is the empty set and a       *)
(* present value x is the singleton {x}, so "x is None" is x = {} and the  *)
(* truth test "if x" of an id or a datetime is x # {}.                     *)
(***************************************************************************)
EXTENDS Integers, Sequences, FiniteSets, TLC

(***************************************************************************)
(* Configuration (src/scheduler/main.py lines 12-23, the defaults).        *)
(***************************************************************************)
INTERVAL_MINUTES == 30
QUIET_INTERVAL_MINUTES == 120
START_QUIET_HOUR == 22
END_QUIET_HOUR == 7
\* seconds
AGENT_TIMEOUT == 1500
SESSION_LIFETIME_DAYS == 3

SecondsPerMinute == 60
MinutesPerHour == 60
HoursPerDay == 24
MinutesPerDay == MinutesPerHour * HoursPerDay

(***************************************************************************)
(* Bounds of the model.                                                    *)
(***************************************************************************)
\* number of run_job invocations (startup runs and timer ticks) explored
MaxCycles == 2
\* number of process crashes explored
MaxCrashes == 1
\* number of session ids up to which the web UI creates sessions
MaxSessions == 3
\* highest hour START_QUIET_HOUR and END_QUIET_HOUR are configured with in
\* the specification of the quiet-hours gate
MaxHour == 23
\* latest day of a creation time handed to save_session_id in the store
\* operations
MaxStoreDay == 3
\* wall clock at the first process start: 21:30 of day 0
InitialClock == 21 * MinutesPerHour + INTERVAL_MINUTES

\* time that may pass between two timer ticks: the configured interval, or
\* a wait as long as the maximum age of a session
TickDeltas == { INTERVAL_MINUTES, SESSION_LIFETIME_DAYS * MinutesPerDay }

\* time the process may stay down between a crash and the next start
DownTimes == { INTERVAL_MINUTES, SESSION_LIFETIME_DAYS * MinutesPerDay }

None == {}
Some(x) == {x}
TheVal(o) == CHOOSE x \in o : TRUE

VARIABLES
    now,                    \* datetime.datetime.now(), in minutes
    pc,                     \* position of the scheduler process
    attempt,                \* loop variable of run_job's retry loop
    CURRENT_SESSION_ID,     \* module global, line 137
    CURRENT_SESSION_START,  \* module global, line 138
    LAST_RUN_TIME,          \* module global, line 31
    sessionFile,            \* content of SESSION_FILE_PATH
    contextFile,            \* content of CONTEXT_FILE_PATH
    execLog,                \* documents of agent_execution_logs
    nextId,                 \* next session id the agent endpoint issues
    events,                 \* what the current cycle has done so far
    io,                     \* a file write that has been opened, not yet closed
    structured_data,        \* run_job's local of that name, None outside a run
    cycles,                 \* run_job invocations so far
    crashes,                \* crashes so far
    quiet_window,           \* START_QUIET_HOUR and END_QUIET_HOUR as read
                            \* from the environment at import, lines 14-15
    webIo,                  \* a write of the web UI's set_current_session
                            \* that has been opened, not yet closed
    requests,               \* operations of the programs beside the
                            \* scheduler (web UI, monitor script) so far
    monitor                 \* position of the monitor script process

vars == << now, pc, attempt, CURRENT_SESSION_ID, CURRENT_SESSION_START,
           LAST_RUN_TIME, sessionFile, contextFile, execLog, nextId, events,
           io, structured_data, cycles, crashes, quiet_window, webIo,
           requests, monitor >>

(***************************************************************************)
(* Files.  open(path, 'w') truncates the file at once; the JSON text       *)
(* reaches it when json.dump has run and the with-block closes the file.   *)
(***************************************************************************)
Absent == [kind |-> "absent"]
Truncated == [kind |-> "truncated"]
\* text from which json.load raises JSONDecodeError
Garbage == [kind |-> "garbage"]
\* a JSON value that is not a map (a list, a string, a number)
NonMap == [kind |-> "non_map"]
\* a JSON map: data.get("session_id") and data.get("start_time")
SessionRecord(id, start) ==
    [kind |-> "record", session_id |-> id, start_time |-> start]
ContextRecord(c) == [kind |-> "record", context |-> c]
NoIo == [file |-> "none"]

\* a session id the agent endpoint has not issued: POST /api/session of the
\* web UI takes any session_id that is true in a truth test
ForeignId == 0

\* whether the text of record a is at least as long as the text the file
\* holds.  The ids the endpoint issues have one length, so a record with a
\* start_time is longer than one without; the length of a foreign id and of
\* other content is anything.
AtLeastAsLong(a, held) ==
    IF held.kind # "record"
       \/ ForeignId \in a.session_id \cup held.session_id
    THEN BOOLEAN
    ELSE IF a.start_time # None \/ held.start_time = None
         THEN { TRUE }
         ELSE { FALSE }

\* the contents the file at a path can have after a write that was opened
\* with mode 'w' puts its text at offset 0 and closes.  A handle whose file
\* was unlinked since the open writes to no path.  Text that another writer
\* has put into the file since the open stays behind the new text where it
\* is longer, and the whole is no JSON value.
AfterWrite(h, held) ==
    IF h.detached
    THEN { held }
    ELSE IF held.kind = "truncated"
         THEN { h.data }
         ELSE { IF c THEN h.data ELSE Garbage : c \in AtLeastAsLong(h.data, held) }

\* an open write after the file at its path went from before to after: an
\* unlink takes the path from the handle
AfterRemoval(h, before, after) ==
    IF h # NoIo /\ h.file = "session"
       /\ before.kind # "absent" /\ after.kind = "absent"
    THEN [h EXCEPT !.detached = TRUE]
    ELSE h

(***************************************************************************)
(* Quiet-hours policy.                                                     *)
(***************************************************************************)
HourOf(t) == (t \div MinutesPerHour) % HoursPerDay

(***************************************************************************)
(* JSON values of the start_time field.  A text is the sequence of the     *)
(* fields datetime.isoformat() writes: day, hour, minute.                  *)
(***************************************************************************)
JsonStr(text) == [type |-> "str", text |-> text]
\* a value that is not a string and is true in a truth test: a number other
\* than 0, true, a list or a map that is not empty
JsonNum == [type |-> "num", text |-> << >>]
\* a value that is not a string and is false in a truth test: 0, 0.0,
\* false, [] or {}
JsonFalsy == [type |-> "falsy", text |-> << >>]
\* line 70, "if start_time_iso:": the truth test of a JSON value
IsTruthy(v) == IF v.type = "str" THEN v.text # << >> ELSE v.type # "falsy"

\* an isoformat that drops the minutes
isoformat_HourOnly(t) == << t \div MinutesPerDay, HourOf(t), 0 >>

\* datetime.isoformat()
isoformat(t) == << t \div MinutesPerDay, HourOf(t), t % MinutesPerHour >>

\* the texts datetime.fromisoformat() accepts; it raises ValueError on others
IsIsoText(text) ==
    /\ Len(text) = 3
    /\ text[1] >= 0
    /\ text[2] \in 0 .. (HoursPerDay - 1)
    /\ text[3] \in 0 .. (MinutesPerHour - 1)

\* datetime.fromisoformat() of an accepted text
fromisoformat(text) ==
    text[1] * MinutesPerDay + text[2] * MinutesPerHour + text[3]

\* a window that takes in its end hour
is_quiet_hour_EndInclusive(hour) ==
    IF quiet_window.start > quiet_window.end
    THEN hour >= quiet_window.start \/ hour <= quiet_window.end
    ELSE quiet_window.start <= hour /\ hour <= quiet_window.end

is_quiet_hour(hour) ==
    IF quiet_window.start > quiet_window.end
    THEN hour >= quiet_window.start \/ hour < quiet_window.end
    ELSE quiet_window.start <= hour /\ hour < quiet_window.end

\* a gate that skips inside the window when no run is remembered
should_skip_quiet_time_NoneSkips(t, last) ==
    /\ is_quiet_hour(HourOf(t))
    /\ (last = None \/ t - TheVal(last) < QUIET_INTERVAL_MINUTES)

\* a gate that still skips when the whole quiet interval has passed
should_skip_quiet_time_Inclusive(t, last) ==
    /\ is_quiet_hour(HourOf(t))
    /\ last # None
    /\ t - TheVal(last) <= QUIET_INTERVAL_MINUTES

\* should_skip_quiet_time() evaluated at clock t with the global last
should_skip_quiet_time(t, last) ==
    /\ is_quiet_hour(HourOf(t))
    /\ last # None
    /\ t - TheVal(last) < QUIET_INTERVAL_MINUTES

(***************************************************************************)
(* Session Store and Context Store.                                        *)
(***************************************************************************)
\* a load that hands on the start time of a map without session_id
load_session_id_KeepsStart(f) ==
    IF f.kind # "record"
    THEN << None, None >>
    ELSE IF /\ f.start_time # None
            /\ IsTruthy(TheVal(f.start_time))
            /\ TheVal(f.start_time).type # "str"
    THEN << None, None >>
    ELSE << f.session_id,
            IF /\ f.start_time # None
               /\ IsTruthy(TheVal(f.start_time))
               /\ IsIsoText(TheVal(f.start_time).text)
            THEN Some(fromisoformat(TheVal(f.start_time).text))
            ELSE None >>

\* a load that gives the record up when its creation time does not parse
load_session_id_RejectsBadStart(f) ==
    IF f.kind # "record"
    THEN << None, None >>
    ELSE IF /\ f.start_time # None
            /\ IsTruthy(TheVal(f.start_time))
            /\ \/ TheVal(f.start_time).type # "str"
               \/ ~ IsIsoText(TheVal(f.start_time).text)
    THEN << None, None >>
    ELSE << IF f.session_id # None THEN f.session_id ELSE None,
            IF f.session_id # None /\ f.start_time # None
               /\ IsTruthy(TheVal(f.start_time))
            THEN Some(fromisoformat(TheVal(f.start_time).text))
            ELSE None >>

(***************************************************************************)
(* load_session_id(): << session_id, start_time >>.  A missing file, text  *)
(* that is not JSON and JSON that is not a map end in (None, None), the    *)
(* last two through the except of line 79.  A start_time text that does    *)
(* not parse raises ValueError, caught at line 72; a truthy start_time     *)
(* that is not a string raises TypeError, which line 72 does not catch and *)
(* line 79 does.                                                           *)
(***************************************************************************)
load_session_id(f) ==
    IF f.kind # "record"
    THEN << None, None >>
    ELSE IF /\ f.start_time # None
            /\ IsTruthy(TheVal(f.start_time))
            /\ TheVal(f.start_time).type # "str"
    THEN << None, None >>
    ELSE LET start_time ==
                 IF /\ f.start_time # None
                    /\ IsTruthy(TheVal(f.start_time))
                    /\ IsIsoText(TheVal(f.start_time).text)
                 THEN Some(fromisoformat(TheVal(f.start_time).text))
                 ELSE None
         IN  IF f.session_id # None
             THEN << f.session_id, start_time >>
             ELSE << None, None >>

\* save_session_id(session_id, start_time) called at clock t: the JSON map
\* it dumps
save_session_id(session_id, start_time, t) ==
    SessionRecord(session_id,
                  Some(JsonStr(isoformat(IF start_time = None
                                         THEN t
                                         ELSE TheVal(start_time)))))

\* a clear_session_id that leaves the file in place
clear_session_id_Keeps(f) == f

\* clear_session_id(): the session file after os.remove
clear_session_id(f) == Absent

\* load_context(): the stored map, or None
load_context(f) ==
    IF f.kind = "record" THEN Some(f.context) ELSE None

\* dict.get(key)
Get(d, k) == IF k \in DOMAIN d THEN Some(d[k]) ELSE None

\* a snapshot that takes last_operation from the comment
ContextOf_OperationFromComment(data, t) ==
    [ timestamp      |-> t,
      plant_status   |-> Get(data, "plant_status"),
      growth_stage   |-> Get(data, "growth_stage"),
      last_operation |-> Get(data, "comment"),
      last_comment   |-> Get(data, "comment") ]

\* the map save_context(data) writes at clock t
ContextOf(data, t) ==
    [ timestamp      |-> t,
      plant_status   |-> Get(data, "plant_status"),
      growth_stage   |-> Get(data, "growth_stage"),
      last_operation |-> Get(data, "operation"),
      last_comment   |-> Get(data, "comment") ]


(***************************************************************************)
(* The agent endpoint's answers.  A 200 answer of POST /run carries a body  *)
(* that is not JSON, a body that is JSON and has no length (null, a number *)
(* or a boolean), or a list of events whose text is one of a few           *)
(* representative agent texts.                                             *)
(***************************************************************************)
StatusObject ==
    [ plant_status |-> "healthy", growth_stage |-> 2,
      operation |-> "water", comment |-> "watered" ]
PlainObject == [ status |-> "ok" ]
\* the map the handover prompt asks for (lines 18-21: plant_status and
\* comment, operation left empty), here with a plant_status, a growth_stage
\* and an operation that are false in a truth test
SummaryObject ==
    [ plant_status |-> "", growth_stage |-> 0,
      operation |-> "", comment |-> "summary" ]

\* "status_json":   a JSON object with plant_status
\* "summary_json":  a JSON object with plant_status whose fields are empty
\* "plain_json":    a JSON object without plant_status
\* "preamble_json": prose without braces, then a JSON object with plant_status
\* "array_json":    a JSON array without braces
\* "prose":         text from which no JSON value parses
AgentTexts ==
    { "status_json", "summary_json", "plain_json", "preamble_json",
      "array_json", "prose" }
\* "not_json":  resp.json() raises
\* "null_json": resp.json() returns None, a number or a boolean
RunBodies == AgentTexts \cup { "not_json", "null_json" }

\* statuses of POST /run: success, the two the code names, another 5xx and
\* a 4xx
RunStatuses == { 200, 404, 500, 503, 400 }

\* the extraction of run_job's main path, lines 307-338: a map, a non-map
\* JSON value, or the raw_output fallback
ExtractMain(text) ==
    CASE text = "status_json"   -> [type |-> "dict", val |-> StatusObject]
      [] text = "summary_json"  -> [type |-> "dict", val |-> SummaryObject]
      [] text = "preamble_json" -> [type |-> "dict", val |-> StatusObject]
      [] text = "plain_json"    -> [type |-> "dict", val |-> PlainObject]
      [] text = "array_json"    -> [type |-> "list"]
      [] OTHER                  -> [type |-> "dict", val |-> [raw_output |-> text]]

\* the parse of the handover path, lines 184-204: json.loads of the trimmed,
\* unfenced text with no brace scan; a failure becomes the "Handover (Raw)" map.
\* The text of a body that is no list of events is json.dumps of the body
\* (line 184), which parses to the body itself
ExtractHandover(text) ==
    CASE text = "status_json"  -> [type |-> "dict", val |-> StatusObject]
      [] text = "summary_json" -> [type |-> "dict", val |-> SummaryObject]
      [] text = "plain_json"   -> [type |-> "dict", val |-> PlainObject]
      [] text = "array_json"   -> [type |-> "list"]
      [] text = "null_json"    -> [type |-> "scalar"]
      [] OTHER -> [type |-> "dict",
                   val |-> [plant_status |-> "Handover (Raw)", comment |-> text]]

\* answers of the create-session call
CreateOutcomes == { "id", "name", "no_id", "non_200", "exception" }

\* outcomes of the Firestore block, lines 351-381: the document is set; no
\* credentials are in the environment and the save is skipped (line 377);
\* the import, the client or the set raises (line 380)
SinkOutcomes == { "saved", "no_credentials", "error" }

Event(op, sid, arg) == [op |-> op, sid |-> sid, arg |-> arg]

\* the timeout argument of the requests.post of each remote call: lines 176
\* and 278 pass timeout=AGENT_TIMEOUT, line 218 passes none, and requests
\* then waits for the answer without limit
RequestTimeout(call) ==
    CASE call = "handover" -> Some(AGENT_TIMEOUT)
      [] call = "create"   -> None
      [] call = "main"     -> Some(AGENT_TIMEOUT)

\* minutes a remote call takes to answer: at once, or a while
AnswerMinutes == { 0, 10 }

\* minutes after which the requests.post of a call raises: a connection
\* error at once, or requests.Timeout when the timeout of the call has
\* passed; with no timeout, whenever the connection breaks
RaiseMinutes(call) ==
    IF RequestTimeout(call) = None
    THEN AnswerMinutes
    ELSE { 0, TheVal(RequestTimeout(call)) \div SecondsPerMinute }

\* the remote call a waiting process is blocked in
WaitingOn(p) ==
    CASE p = "handover_wait" -> "handover"
      [] p = "create_wait"   -> "create"
      [] p = "main_wait"     -> "main"

(***************************************************************************)
(* Initial state: the module has been imported, the process is about to    *)
(* call main(); nothing has been persisted yet.                            *)
(***************************************************************************)
Init ==
    /\ now = InitialClock
    /\ pc = "boot"
    /\ attempt = 0
    /\ CURRENT_SESSION_ID = None
    /\ CURRENT_SESSION_START = None
    /\ LAST_RUN_TIME = None
    /\ sessionFile = Absent
    /\ contextFile = Absent
    /\ execLog = << >>
    /\ nextId = 1
    /\ events = << >>
    /\ io = NoIo
    /\ structured_data = None
    /\ cycles = 0
    /\ crashes = 0
    /\ quiet_window = [start |-> START_QUIET_HOUR, end |-> END_QUIET_HOUR]
    /\ webIo = NoIo
    /\ requests = 0
    /\ monitor = "idle"

(***************************************************************************)
(* main(), lines 409-421.  The global statement names CURRENT_SESSION_ID   *)
(* and LAST_RUN_TIME only, so the start time load_session_id returns is    *)
(* bound to a local of main and the global CURRENT_SESSION_START keeps its *)
(* value.  main then calls run_job at once.                                *)
(***************************************************************************)
MainStartup ==
    /\ pc = "boot"
    /\ cycles < MaxCycles
    /\ CURRENT_SESSION_ID' = load_session_id(sessionFile)[1]
    /\ pc' = "gate"
    /\ cycles' = cycles + 1
    /\ events' = << Event("restored", load_session_id(sessionFile)[1], None) >>
    /\ UNCHANGED << now, attempt, CURRENT_SESSION_START, LAST_RUN_TIME,
                    sessionFile, contextFile, execLog, nextId, io, structured_data, crashes >>
    /\ UNCHANGED << quiet_window, webIo, requests, monitor >>

(***************************************************************************)
(* The loop of main(), lines 423-427: the timer fires run_job.             *)
(***************************************************************************)
Tick ==
    /\ pc = "idle"
    /\ cycles < MaxCycles
    /\ \E d \in TickDeltas : now' = now + d
    /\ pc' = "gate"
    /\ cycles' = cycles + 1
    /\ events' = << >>
    /\ UNCHANGED << attempt, CURRENT_SESSION_ID, CURRENT_SESSION_START,
                    LAST_RUN_TIME, sessionFile, contextFile, execLog, nextId,
                    io, structured_data, crashes >>
    /\ UNCHANGED << quiet_window, webIo, requests, monitor >>

(***************************************************************************)
(* run_job, lines 143-148: the quiet-hours gate.                           *)
(***************************************************************************)
Gate ==
    /\ pc = "gate"
    /\ IF should_skip_quiet_time(now, LAST_RUN_TIME)
       THEN /\ pc' = "done"
            /\ events' = Append(events, Event("skipped", None, None))
            /\ UNCHANGED attempt
       ELSE /\ pc' = "attempt"
            /\ attempt' = 0
            /\ UNCHANGED events
    /\ UNCHANGED << now, CURRENT_SESSION_ID, CURRENT_SESSION_START,
                    LAST_RUN_TIME, sessionFile, contextFile, execLog, nextId,
                    io, structured_data, cycles, crashes >>
    /\ UNCHANGED << quiet_window, webIo, requests, monitor >>

\* run_job has returned: back in the loop of main(), waiting for the timer
Return ==
    /\ pc = "done"
    /\ pc' = "idle"
    /\ events' = << >>
    /\ UNCHANGED << now, attempt, CURRENT_SESSION_ID, CURRENT_SESSION_START,
                    LAST_RUN_TIME, sessionFile, contextFile, execLog, nextId,
                    io, structured_data, cycles, crashes >>
    /\ UNCHANGED << quiet_window, webIo, requests, monitor >>

\* elapsed.days >= SESSION_LIFETIME_DAYS, lines 156-161
LifetimeExceeded(id, start, t) ==
    /\ id # None
    /\ start # None
    /\ (t - TheVal(start)) \div MinutesPerDay >= SESSION_LIFETIME_DAYS

(***************************************************************************)
(* run_job, lines 150-162: the file is read only when no id is held in     *)
(* memory; then the age of the held session is checked.                    *)
(***************************************************************************)
AttemptBegin ==
    /\ pc = "attempt"
    /\ LET loaded == IF CURRENT_SESSION_ID = None
                     THEN load_session_id(sessionFile)
                     ELSE << CURRENT_SESSION_ID, CURRENT_SESSION_START >>
       IN /\ CURRENT_SESSION_ID' = loaded[1]
          /\ CURRENT_SESSION_START' = loaded[2]
          /\ pc' = IF LifetimeExceeded(loaded[1], loaded[2], now)
                   THEN "handover_send"
                   ELSE "session"
    /\ UNCHANGED << now, attempt, LAST_RUN_TIME, sessionFile, contextFile,
                    execLog, nextId, events, io, structured_data, cycles,
                    crashes >>
    /\ UNCHANGED << quiet_window, webIo, requests, monitor >>


max_retries == 1

\* requests.post of the handover prompt on the held session, lines 165-176
HandoverSend ==
    /\ pc = "handover_send"
    /\ events' = Append(events, Event("handover", CURRENT_SESSION_ID, None))
    /\ pc' = "handover_wait"
    /\ UNCHANGED << now, attempt, CURRENT_SESSION_ID, CURRENT_SESSION_START,
                    LAST_RUN_TIME, sessionFile, contextFile, execLog, nextId,
                    io, structured_data, cycles, crashes >>
    /\ UNCHANGED << quiet_window, webIo, requests, monitor >>

\* a handover failure that ends the cycle
HandoverException_Aborts ==
    /\ pc = "handover_wait"
    /\ \E d \in RaiseMinutes("handover") : now' = now + d
    /\ events' = Append(events, Event("handover_failed", None, "exception"))
    /\ pc' = "done"
    /\ UNCHANGED << attempt, CURRENT_SESSION_ID, CURRENT_SESSION_START,
                    LAST_RUN_TIME, sessionFile, contextFile, execLog, nextId,
                    io, structured_data, cycles, crashes >>
    /\ UNCHANGED << quiet_window, webIo, requests, monitor >>

\* the handover call raised (timeout, connection error): line 206
HandoverException ==
    /\ pc = "handover_wait"
    /\ \E d \in RaiseMinutes("handover") : now' = now + d
    /\ events' = Append(events, Event("handover_failed", None, "exception"))
    /\ pc' = "handover_clear"
    /\ UNCHANGED << attempt, CURRENT_SESSION_ID, CURRENT_SESSION_START,
                    LAST_RUN_TIME, sessionFile, contextFile, execLog, nextId,
                    io, structured_data, cycles, crashes >>
    /\ UNCHANGED << quiet_window, webIo, requests, monitor >>

(***************************************************************************)
(* The handover call answered, lines 177-207.  A status other than 200 is  *)
(* ignored; a 200 whose body is not JSON raises in h_resp.json() and is    *)
(* caught at line 206; otherwise the text is parsed and a map is handed to *)
(* save_context, whose open(..., 'w') truncates the context file.          *)
(***************************************************************************)
HandoverResponse ==
    /\ pc = "handover_wait"
    /\ \E d \in AnswerMinutes : now' = now + d
    /\ \E status \in RunStatuses, body \in RunBodies :
        LET parsed == ExtractHandover(body) IN
        IF status # 200 \/ body = "not_json"
        THEN /\ events' = Append(events,
                    Event("handover_failed", None,
                          IF status # 200 THEN "non_200" ELSE "not_json"))
             /\ pc' = "handover_clear"
             /\ UNCHANGED << contextFile, io >>
        ELSE IF parsed.type = "dict"
        THEN /\ events' = Append(events, Event("handover_ok", None, body))
             /\ contextFile' = Truncated
             /\ io' = [ file |-> "context",
                        data |-> ContextRecord(ContextOf(parsed.val, now')),
                        ret |-> "handover_clear",
                        detached |-> FALSE ]
             /\ pc' = "writing"
        ELSE /\ events' = Append(events, Event("handover_ok", None, body))
             /\ pc' = "handover_clear"
             /\ UNCHANGED << contextFile, io >>
    /\ UNCHANGED << attempt, CURRENT_SESSION_ID, CURRENT_SESSION_START,
                    LAST_RUN_TIME, sessionFile, execLog, nextId,
                    structured_data, cycles, crashes >>
    /\ UNCHANGED << quiet_window, webIo, requests, monitor >>

\* a rotation that removes the file and keeps the id held in memory
HandoverClear_KeepsId ==
    /\ pc = "handover_clear"
    /\ sessionFile' = clear_session_id(sessionFile)
    /\ events' = Append(events, Event("clear_session", None, None))
    /\ pc' = "session"
    /\ UNCHANGED << now, attempt, CURRENT_SESSION_ID, CURRENT_SESSION_START,
                    LAST_RUN_TIME, contextFile, execLog, nextId, io,
                    structured_data, cycles, crashes >>
    /\ webIo' = AfterRemoval(webIo, sessionFile, sessionFile')
    /\ UNCHANGED << quiet_window, requests, monitor >>

\* lines 210-212: forget the session and remove the session file
HandoverClear ==
    /\ pc = "handover_clear"
    /\ CURRENT_SESSION_ID' = None
    /\ CURRENT_SESSION_START' = None
    /\ sessionFile' = clear_session_id(sessionFile)
    /\ events' = Append(events, Event("clear_session", None, None))
    /\ pc' = "session"
    /\ UNCHANGED << now, attempt, LAST_RUN_TIME, contextFile, execLog, nextId,
                    io, structured_data, cycles, crashes >>
    /\ webIo' = AfterRemoval(webIo, sessionFile, sessionFile')
    /\ UNCHANGED << quiet_window, requests, monitor >>

\* a reuse that stamps the session record with the time of the run
EnsureSession_Restamps ==
    /\ pc = "session"
    /\ IF CURRENT_SESSION_ID = None
       THEN /\ events' = Append(events, Event("create", None, None))
            /\ pc' = "create_wait"
            /\ UNCHANGED << CURRENT_SESSION_START, sessionFile >>
       ELSE /\ pc' = "prompt"
            /\ CURRENT_SESSION_START' = Some(now)
            /\ sessionFile' = save_session_id(CURRENT_SESSION_ID, Some(now), now)
            /\ UNCHANGED events
    /\ UNCHANGED << now, attempt, CURRENT_SESSION_ID, LAST_RUN_TIME,
                    contextFile, execLog, nextId, io, structured_data, cycles,
                    crashes >>
    /\ UNCHANGED << quiet_window, webIo, requests, monitor >>

\* lines 214-218 and 241-242: create a session when none is held
EnsureSession ==
    /\ pc = "session"
    /\ IF CURRENT_SESSION_ID = None
       THEN /\ events' = Append(events, Event("create", None, None))
            /\ pc' = "create_wait"
       ELSE /\ pc' = "prompt"
            /\ UNCHANGED events
    /\ UNCHANGED << now, attempt, CURRENT_SESSION_ID, CURRENT_SESSION_START,
                    LAST_RUN_TIME, sessionFile, contextFile, execLog, nextId,
                    io, structured_data, cycles, crashes >>
    /\ UNCHANGED << quiet_window, webIo, requests, monitor >>

\* a creation whose failures do not return
CreateResponse_GoesOn ==
    /\ pc = "create_wait"
    /\ \E d \in AnswerMinutes : now' = now + d
    /\ \E o \in CreateOutcomes :
        IF o \in { "id", "name" }
        THEN /\ CURRENT_SESSION_ID' = Some(nextId)
             /\ CURRENT_SESSION_START' = Some(now')
             /\ nextId' = nextId + 1
             /\ sessionFile' = Truncated
             /\ io' = [ file |-> "session",
                        data |-> save_session_id(Some(nextId), Some(now'), now'),
                        ret |-> "prompt",
                        detached |-> FALSE ]
             /\ events' = Append(events, Event("created", Some(nextId), None))
             /\ pc' = "writing"
        ELSE /\ events' = Append(events, Event("create_failed", None, None))
             /\ pc' = "prompt"
             /\ UNCHANGED << CURRENT_SESSION_ID, CURRENT_SESSION_START, nextId,
                             sessionFile, io >>
    /\ UNCHANGED << attempt, LAST_RUN_TIME, contextFile, execLog,
                    structured_data, cycles, crashes >>
    /\ UNCHANGED << quiet_window, webIo, requests, monitor >>

\* a creation that holds the new session in memory and does not save it
CreateResponse_SavesNothing ==
    /\ pc = "create_wait"
    /\ \E d \in AnswerMinutes : now' = now + d
    /\ \E o \in CreateOutcomes :
        IF o \in { "id", "name" }
        THEN /\ CURRENT_SESSION_ID' = Some(nextId)
             /\ CURRENT_SESSION_START' = Some(now')
             /\ nextId' = nextId + 1
             /\ events' = Append(events, Event("created", Some(nextId), None))
             /\ pc' = "prompt"
        ELSE /\ events' = Append(events, Event("create_failed", None, None))
             /\ pc' = "done"
             /\ UNCHANGED << CURRENT_SESSION_ID, CURRENT_SESSION_START, nextId >>
    /\ UNCHANGED << attempt, LAST_RUN_TIME, sessionFile, contextFile, execLog,
                    io, structured_data, cycles, crashes >>
    /\ UNCHANGED << quiet_window, webIo, requests, monitor >>

(***************************************************************************)
(* The create-session call ended, lines 218-240.  An id comes from the     *)
(* "id" field or from the last segment of "name"; then the globals are set *)
(* and save_session_id opens the session file for writing.  A status other *)
(* than 200, an answer with neither field, and an exception return.        *)
(***************************************************************************)
CreateResponse ==
    /\ pc = "create_wait"
    /\ \E d \in AnswerMinutes : now' = now + d
    /\ \E o \in CreateOutcomes :
        IF o \in { "id", "name" }
        THEN /\ CURRENT_SESSION_ID' = Some(nextId)
             /\ CURRENT_SESSION_START' = Some(now')
             /\ nextId' = nextId + 1
             /\ sessionFile' = Truncated
             /\ io' = [ file |-> "session",
                        data |-> save_session_id(Some(nextId), Some(now'), now'),
                        ret |-> "prompt",
                        detached |-> FALSE ]
             /\ events' = Append(events, Event("created", Some(nextId), None))
             /\ pc' = "writing"
        ELSE /\ events' = Append(events, Event("create_failed", None, None))
             /\ pc' = "done"
             /\ UNCHANGED << CURRENT_SESSION_ID, CURRENT_SESSION_START, nextId,
                             sessionFile, io >>
    /\ UNCHANGED << attempt, LAST_RUN_TIME, contextFile, execLog,
                    structured_data, cycles, crashes >>
    /\ UNCHANGED << quiet_window, webIo, requests, monitor >>

(***************************************************************************)
(* json.dump hands the text to the file object piece by piece; the file    *)
(* object passes it on to the file when its buffer is full and when the    *)
(* with-block closes it.  A snapshot holds texts of the agent of any       *)
(* length, so a first part of it can be in the context file before the     *)
(* rest is: a text json.load raises on.  A session record is shorter than  *)
(* the buffer and reaches the file at the close.                           *)
(***************************************************************************)
FlushWrite ==
    /\ pc = "writing"
    /\ io.file = "context"
    /\ contextFile = Truncated
    /\ contextFile' = Garbage
    /\ UNCHANGED << now, pc, attempt, CURRENT_SESSION_ID, CURRENT_SESSION_START,
                    LAST_RUN_TIME, sessionFile, execLog, nextId, events, io,
                    structured_data, cycles, crashes >>
    /\ UNCHANGED << quiet_window, webIo, requests, monitor >>

\* json.dump and the close of the with-block: the opened file gets its text
FinishWrite ==
    /\ pc = "writing"
    /\ IF io.file = "session"
       THEN /\ sessionFile' \in AfterWrite(io, sessionFile)
            /\ events' = Append(events,
                    Event("save_session", io.data.session_id, None))
            /\ UNCHANGED contextFile
       ELSE /\ contextFile' = io.data
            /\ events' = Append(events, Event("save_context", None, None))
            /\ UNCHANGED sessionFile
    /\ pc' = io.ret
    /\ io' = NoIo
    /\ UNCHANGED << now, attempt, CURRENT_SESSION_ID, CURRENT_SESSION_START,
                    LAST_RUN_TIME, execLog, nextId, structured_data, cycles,
                    crashes >>
    /\ UNCHANGED << quiet_window, webIo, requests, monitor >>

\* the fields of a snapshot are texts but growth_stage, which is a number:
\* the truth test of a text ("" is false) and of a number (0 is false)
TruthyText(v) == v # ""
TruthyNumber(v) == v # 0

\* the context block appended to PROMPT_MESSAGE, lines 245-261: a line for
\* each of the four fields that is there and true in a truth test (lines
\* 251, 253, 255, 257); last_comment is not part of it.  The timestamp
\* save_context writes is never empty.
PromptOf(last_context) ==
    IF last_context = None
    THEN None
    ELSE LET c == TheVal(last_context) IN
         Some([ timestamp      |-> c.timestamp,
                plant_status   |-> { v \in c.plant_status : TruthyText(v) },
                growth_stage   |-> { v \in c.growth_stage : TruthyNumber(v) },
                last_operation |-> { v \in c.last_operation : TruthyText(v) } ])

\* lines 245-278: build the prompt and POST it on the held session
SendMain ==
    /\ pc = "prompt"
    /\ events' = Append(events,
            Event("main", CURRENT_SESSION_ID, PromptOf(load_context(contextFile))))
    /\ pc' = "main_wait"
    /\ UNCHANGED << now, attempt, CURRENT_SESSION_ID, CURRENT_SESSION_START,
                    LAST_RUN_TIME, sessionFile, contextFile, execLog, nextId,
                    io, structured_data, cycles, crashes >>
    /\ UNCHANGED << quiet_window, webIo, requests, monitor >>

\* the main call raised (timeout, connection error): lines 405-407
MainException ==
    /\ pc = "main_wait"
    /\ \E d \in RaiseMinutes("main") : now' = now + d
    /\ events' = Append(events, Event("main_exception", None, None))
    /\ pc' = "done"
    /\ UNCHANGED << attempt, CURRENT_SESSION_ID, CURRENT_SESSION_START,
                    LAST_RUN_TIME, sessionFile, contextFile, execLog, nextId,
                    io, structured_data, cycles, crashes >>
    /\ UNCHANGED << quiet_window, webIo, requests, monitor >>

\* a session-error test that names too many statuses
IsSessionError_AnyFailure(status) == status # 200

\* the statuses run_job treats as a session error, line 389
IsSessionError(status) == status = 404 \/ status = 500

(***************************************************************************)
(* The main call answered 200, lines 280-349.  A body that is not JSON     *)
(* raises in resp.json() (line 283) and a body that is null, a number or a *)
(* boolean raises in len(data) (line 284), both outside the parsing try:   *)
(* the exception lands at line 405 and the cycle ends.  Otherwise the text *)
(* is extracted, and a map with plant_status is handed to save_context.    *)
(***************************************************************************)
MainSuccess ==
    /\ pc = "main_wait"
    /\ \E d \in AnswerMinutes : now' = now + d
    /\ \E body \in RunBodies :
        LET x == ExtractMain(body) IN
        /\ events' = Append(events, Event("main_resp", None, 200))
        /\ IF body \in { "not_json", "null_json" }
           THEN /\ pc' = "done"
                /\ UNCHANGED << contextFile, io, structured_data >>
           ELSE IF x.type = "dict" /\ "plant_status" \in DOMAIN x.val
           THEN /\ structured_data' = Some(x)
                /\ contextFile' = Truncated
                /\ io' = [ file |-> "context",
                           data |-> ContextRecord(ContextOf(x.val, now')),
                           ret |-> "log_sink",
                           detached |-> FALSE ]
                /\ pc' = "writing"
           ELSE /\ structured_data' = Some(x)
                /\ pc' = "log_sink"
                /\ UNCHANGED << contextFile, io >>
    /\ UNCHANGED << attempt, CURRENT_SESSION_ID, CURRENT_SESSION_START,
                    LAST_RUN_TIME, sessionFile, execLog, nextId, cycles,
                    crashes >>
    /\ UNCHANGED << quiet_window, webIo, requests, monitor >>

\* the document of lines 365-369; its timestamp is taken with
\* datetime.timezone.utc
LogEntry(t, sid, data) ==
    [ timestamp |-> t, tzinfo |-> "utc", session_id |-> sid, data |-> data ]

\* a sink whose failure propagates out of run_job
LogSink_ErrorRaises ==
    /\ pc = "log_sink"
    /\ \E o \in SinkOutcomes :
        /\ execLog' = IF o = "saved"
                       THEN Append(execLog,
                                   LogEntry(now, CURRENT_SESSION_ID,
                                            TheVal(structured_data)))
                       ELSE execLog
        /\ events' = Append(events,
                IF o = "error" THEN Event("sink_error", None, None)
                ELSE Event("completed", CURRENT_SESSION_ID, o))
        /\ pc' = IF o = "error" THEN "raised" ELSE "done"
    /\ structured_data' = None
    /\ UNCHANGED << now, attempt, CURRENT_SESSION_ID, CURRENT_SESSION_START,
                    LAST_RUN_TIME, sessionFile, contextFile, nextId, io,
                    cycles, crashes >>
    /\ UNCHANGED << quiet_window, webIo, requests, monitor >>

(***************************************************************************)
(* Lines 351-387: the Firestore block, then "LAST_RUN_TIME = now" and      *)
(* break.  run_job's global statement (line 141) does not name             *)
(* LAST_RUN_TIME, so the assignment of line 385 binds a local of run_job   *)
(* that dies with the return; the module global is left as it was.         *)
(***************************************************************************)
LogSink ==
    /\ pc = "log_sink"
    /\ \E o \in SinkOutcomes :
        /\ execLog' = IF o = "saved"
                       THEN Append(execLog,
                                   LogEntry(now, CURRENT_SESSION_ID,
                                            TheVal(structured_data)))
                       ELSE execLog
        /\ events' = Append(events, Event("completed", CURRENT_SESSION_ID, o))
    /\ structured_data' = None
    /\ pc' = "done"
    /\ UNCHANGED << now, attempt, CURRENT_SESSION_ID, CURRENT_SESSION_START,
                    LAST_RUN_TIME, sessionFile, contextFile, nextId, io,
                    cycles, crashes >>
    /\ UNCHANGED << quiet_window, webIo, requests, monitor >>

(***************************************************************************)
(* The main call answered 404 or 500, lines 389-400: forget the session,   *)
(* remove the session file, and go round the loop once more if this was    *)
(* the first attempt.                                                      *)
(***************************************************************************)
MainSessionError ==
    /\ pc = "main_wait"
    /\ \E d \in AnswerMinutes : now' = now + d
    /\ \E status \in { s \in RunStatuses : IsSessionError(s) } :
        events' = Append(Append(events, Event("main_resp", None, status)),
                         Event("clear_session", None, None))
    /\ CURRENT_SESSION_ID' = None
    /\ CURRENT_SESSION_START' = None
    /\ sessionFile' = clear_session_id(sessionFile)
    /\ IF attempt < max_retries
       THEN /\ attempt' = attempt + 1
            /\ pc' = "attempt"
       ELSE /\ pc' = "done"
            /\ UNCHANGED attempt
    /\ UNCHANGED << LAST_RUN_TIME, contextFile, execLog, nextId, io,
                    structured_data, cycles, crashes >>
    /\ webIo' = AfterRemoval(webIo, sessionFile, sessionFile')
    /\ UNCHANGED << quiet_window, requests, monitor >>

\* the main call answered another status, lines 401-403: no retry
MainOtherStatus ==
    /\ pc = "main_wait"
    /\ \E d \in AnswerMinutes : now' = now + d
    /\ \E status \in { s \in RunStatuses : s # 200 /\ ~IsSessionError(s) } :
        events' = Append(events, Event("main_resp", None, status))
    /\ pc' = "done"
    /\ UNCHANGED << attempt, CURRENT_SESSION_ID, CURRENT_SESSION_START,
                    LAST_RUN_TIME, sessionFile, contextFile, execLog, nextId,
                    io, structured_data, cycles, crashes >>
    /\ UNCHANGED << quiet_window, webIo, requests, monitor >>

(***************************************************************************)
(* The endpoint accepts the request and never answers.  A call with a      *)
(* timeout raises after it (HandoverException, MainException); a call      *)
(* without one blocks run_job, and with it the loop of main(), for good.   *)
(***************************************************************************)
NeverAnswered ==
    /\ pc \in { "handover_wait", "create_wait", "main_wait" }
    /\ RequestTimeout(WaitingOn(pc)) = None
    /\ pc' = "hung"
    /\ UNCHANGED << now, attempt, CURRENT_SESSION_ID, CURRENT_SESSION_START,
                    LAST_RUN_TIME, sessionFile, contextFile, execLog, nextId,
                    events, io, structured_data, cycles, crashes >>
    /\ UNCHANGED << quiet_window, webIo, requests, monitor >>

(***************************************************************************)
(* The process is killed and started again after some time.  Everything    *)
(* held in memory is lost; the files stay as they are, a file that was     *)
(* opened for writing and not yet written stays empty.                     *)
(***************************************************************************)
Crash ==
    /\ pc # "boot"
    /\ crashes < MaxCrashes
    /\ crashes' = crashes + 1
    /\ \E d \in DownTimes : now' = now + d
    /\ pc' = "boot"
    /\ attempt' = 0
    /\ CURRENT_SESSION_ID' = None
    /\ CURRENT_SESSION_START' = None
    /\ LAST_RUN_TIME' = None
    /\ io' = NoIo
    /\ structured_data' = None
    /\ events' = << >>
    /\ UNCHANGED << sessionFile, contextFile, execLog, nextId, cycles >>
    /\ UNCHANGED << quiet_window, webIo, requests, monitor >>

(***************************************************************************)
(* The web UI (src/web_ui/server.py) owns the same session file.  It is    *)
(* another process: its requests are served at any point of a cycle of the *)
(* scheduler.  SESSION_LOCK lets one request at a time touch the file.     *)
(* Path.write_text opens the file with mode 'w', which empties it, and     *)
(* then writes the text and closes.                                        *)
(***************************************************************************)
\* number of operations of the programs beside the scheduler
MaxRequests == 1

\* the write_text of set_current_session(session_id), lines 154-157, up to
\* the open
OpenSessionWrite(id) ==
    /\ sessionFile' = Truncated
    /\ webIo' = [ file |-> "session",
                  data |-> SessionRecord(Some(id), None),
                  detached |-> FALSE ]

\* set_current_session(session_id) up to the open of the file.  POST
\* /api/session hands it any session_id that is true in a truth test (do_POST,
\* lines 570-578); create_new_session hands it the id the endpoint issued
\* for it (line 192)
WebSetSession ==
    /\ webIo = NoIo
    /\ requests < MaxRequests
    /\ requests' = requests + 1
    /\ \E id \in (1 .. (nextId - 1)) \cup { ForeignId } : OpenSessionWrite(id)
    /\ UNCHANGED << now, pc, attempt, CURRENT_SESSION_ID, CURRENT_SESSION_START,
                    LAST_RUN_TIME, contextFile, execLog, nextId, events, io,
                    structured_data, cycles, crashes >>
    /\ UNCHANGED << quiet_window, monitor >>

\* POST /api/session/new: the requests.post of create_new_session(), lines
\* 178-179, is out and the endpoint issues an id.  The web UI touches the
\* file only when the answer is back, in the set_current_session of line
\* 192 (WebSetSession with an id the endpoint has issued); an answer
\* without an id and a failure of the call leave the file alone.
WebCreateSession ==
    /\ nextId <= MaxSessions
    /\ nextId' = nextId + 1
    /\ UNCHANGED << now, pc, attempt, CURRENT_SESSION_ID, CURRENT_SESSION_START,
                    LAST_RUN_TIME, sessionFile, contextFile, execLog, events,
                    io, structured_data, cycles, crashes >>
    /\ UNCHANGED << quiet_window, webIo, requests, monitor >>

\* the write_text of set_current_session writes its text and closes
WebFinishWrite ==
    /\ webIo # NoIo
    /\ sessionFile' \in AfterWrite(webIo, sessionFile)
    /\ webIo' = NoIo
    /\ UNCHANGED << now, pc, attempt, CURRENT_SESSION_ID, CURRENT_SESSION_START,
                    LAST_RUN_TIME, contextFile, execLog, nextId, events, io,
                    structured_data, cycles, crashes >>
    /\ UNCHANGED << quiet_window, requests, monitor >>

\* POST /api/session/clear: clear_current_session() unlinks the file when it
\* exists
WebClearSession ==
    /\ webIo = NoIo
    /\ requests < MaxRequests
    /\ requests' = requests + 1
    /\ sessionFile' = Absent
    /\ io' = AfterRemoval(io, sessionFile, Absent)
    /\ UNCHANGED << now, pc, attempt, CURRENT_SESSION_ID, CURRENT_SESSION_START,
                    LAST_RUN_TIME, contextFile, execLog, nextId, events,
                    structured_data, cycles, crashes >>
    /\ UNCHANGED << quiet_window, webIo, monitor >>

(***************************************************************************)
(* The monitor script (src/scripts/periodic_monitor.py) runs the agent in  *)
(* its own process on a session of its own and writes its result into the  *)
(* same collection, agent_execution_logs.  It keeps no file of the         *)
(* scheduler.                                                              *)
(***************************************************************************)
\* lines 65-66, the constants of the script's own night exclusion
SCRIPT_START_QUIET_HOUR == 22
SCRIPT_END_QUIET_HOUR == 6

\* lines 68-76
is_night(hour) ==
    IF SCRIPT_START_QUIET_HOUR > SCRIPT_END_QUIET_HOUR
    THEN hour >= SCRIPT_START_QUIET_HOUR \/ hour < SCRIPT_END_QUIET_HOUR
    ELSE SCRIPT_START_QUIET_HOUR <= hour /\ hour < SCRIPT_END_QUIET_HOUR

\* the texts the agent gives the script: those it gives the scheduler, and
\* a text that is a JSON value neither map nor list (a number, a string,
\* true, false or null)
ScriptTexts == AgentTexts \cup { "scalar_json" }

\* lines 157-184: json.loads of the whole trimmed, unfenced text with no
\* brace scan; a map is the document, a list without a map at its head is
\* wrapped as {"data": list}, any other JSON value as {"raw_output": value}
\* (line 184); a text that is no JSON text raises JSONDecodeError and gives
\* no document (None)
ScriptFinal(text) ==
    CASE text = "status_json"  -> Some(StatusObject)
      [] text = "summary_json" -> Some(SummaryObject)
      [] text = "plain_json"   -> Some(PlainObject)
      [] text = "array_json"   -> Some([ data |-> [type |-> "list"] ])
      [] text = "scalar_json"  -> Some([ raw_output |-> [type |-> "scalar"] ])
      [] OTHER                 -> None

\* lines 186-193: the document is the map itself with the UTC time of the
\* write as its timestamp; it has no session_id and no data of the cycle
ScriptDocument(t, final) ==
    [ timestamp |-> t, tzinfo |-> "utc" ] @@ final

\* main(), lines 57-135: the script is started at an hour outside its night
\* window (inside it, it returns at once) and begins the run of the agent
MonitorStart ==
    /\ monitor = "idle"
    /\ requests < MaxRequests
    /\ requests' = requests + 1
    /\ ~ is_night(HourOf(now))
    /\ monitor' = "running"
    /\ UNCHANGED << now, pc, attempt, CURRENT_SESSION_ID, CURRENT_SESSION_START,
                    LAST_RUN_TIME, sessionFile, contextFile, execLog, nextId,
                    events, io, structured_data, cycles, crashes >>
    /\ UNCHANGED << quiet_window, webIo >>

\* main(), lines 135-200: the run of the agent has taken its time and ends;
\* the script takes the time anew (line 169), and the document is saved
\* when the text parses and the credentials are set (line 189); a failure
\* of the write is caught (line 200)
MonitorFinish ==
    /\ monitor = "running"
    /\ monitor' = "idle"
    /\ \E d \in AnswerMinutes : now' = now + d
    /\ \E text \in ScriptTexts, o \in SinkOutcomes :
        execLog' = IF o = "saved" /\ ScriptFinal(text) # None
                   THEN Append(execLog,
                               ScriptDocument(now', TheVal(ScriptFinal(text))))
                   ELSE execLog
    /\ UNCHANGED << pc, attempt, CURRENT_SESSION_ID, CURRENT_SESSION_START,
                    LAST_RUN_TIME, sessionFile, contextFile, nextId, events,
                    io, structured_data, cycles, crashes >>
    /\ UNCHANGED << quiet_window, webIo, requests >>

Next ==
    \/ MainStartup
    \/ Tick
    \/ Gate
    \/ Return
    \/ AttemptBegin
    \/ HandoverSend
    \/ HandoverException
    \/ HandoverResponse
    \/ HandoverClear
    \/ EnsureSession
    \/ CreateResponse
    \/ FlushWrite
    \/ FinishWrite
    \/ SendMain
    \/ MainException
    \/ MainSuccess
    \/ LogSink
    \/ MainSessionError
    \/ MainOtherStatus
    \/ NeverAnswered
    \/ Crash

\* the scheduler process alone, with crashes and restarts
Spec == Init /\ [][Next]_vars

\* the steps of the runs main() makes at a start; no rotation starts in such
\* a run, since the creation time in memory is empty after a start
NextRestart ==
    \/ MainStartup
    \/ Gate
    \/ Return
    \/ AttemptBegin
    \/ EnsureSession
    \/ CreateResponse
    \/ FlushWrite
    \/ FinishWrite
    \/ SendMain
    \/ MainException
    \/ MainSuccess
    \/ LogSink
    \/ MainSessionError
    \/ MainOtherStatus
    \/ Crash

\* the starts of the process and the run main() makes at each start, with
\* crashes between them and no tick of the timer
SpecRestart == Init /\ [][NextRestart]_vars


(***************************************************************************)
(* Storage failures.  Each of the five store functions wraps its body in   *)
(* try / except Exception and logs (lines 79, 96, 105, 115, 133), so an    *)
(* OSError of open, json.load, json.dump, os.makedirs or os.remove ends    *)
(* inside the function: a load returns None, a removal or a save that      *)
(* fails before its open leaves the file as it was, a save that fails      *)
(* after its open leaves the file with what has reached it.  An exception  *)
(* no handler catches leaves run_job and ends the loop of main().          *)
(***************************************************************************)
StoreFunctions ==
    { "load_session_id", "save_session_id", "clear_session_id",
      "load_context", "save_context" }

\* number of store operations that fail in one cycle
MaxFaults == 3

\* number of cycles explored from a state between two cycles
MaxFaultCycles == 1

\* one more store operation of the current cycle may fail
MayFail ==
    Cardinality({ i \in 1 .. Len(events) : events[i].op = "store_error" })
        < MaxFaults

\* store functions of which one lets its exception out
Catches_ButClear(fn) == fn # "clear_session_id"

\* the function catches what its body raises
Catches(fn) == fn \in StoreFunctions

\* where run_job stands after fn has failed: at the statement after the
\* call, or else where the try block around the call lands ("raised", out
\* of run_job with the exception, when the call stands in no try block)
AfterError(fn, next, outer) == IF Catches(fn) THEN next ELSE outer

\* line 153: the session file exists and reading it fails
LoadSessionError ==
    /\ MayFail
    /\ pc = "attempt"
    /\ CURRENT_SESSION_ID = None
    /\ sessionFile.kind # "absent"
    /\ CURRENT_SESSION_START' = None
    /\ events' = Append(events, Event("store_error", None, "load_session_id"))
    /\ pc' = AfterError("load_session_id", "session", "raised")
    /\ UNCHANGED << now, attempt, CURRENT_SESSION_ID, LAST_RUN_TIME,
                    sessionFile, contextFile, execLog, nextId, io,
                    structured_data, cycles, crashes >>
    /\ UNCHANGED << quiet_window, webIo, requests, monitor >>

\* line 212: os.remove of the session file fails during a rotation
ClearSessionFails ==
    /\ pc = "handover_clear"
    /\ sessionFile.kind # "absent"
    /\ CURRENT_SESSION_ID' = None
    /\ CURRENT_SESSION_START' = None
    /\ events' = Append(events, Event("store_error", None, "clear_session_id"))
    /\ pc' = AfterError("clear_session_id", "session", "raised")
    /\ UNCHANGED << now, attempt, LAST_RUN_TIME, sessionFile, contextFile,
                    execLog, nextId, io, structured_data, cycles, crashes >>
    /\ UNCHANGED << quiet_window, webIo, requests, monitor >>

\* the same, as one of the failures a cycle may meet
ClearSessionError ==
    /\ MayFail
    /\ ClearSessionFails

\* line 393: os.remove of the session file fails after a session error (the
\* call stands in the try block of lines 264-405)
MainSessionErrorClearFails ==
    /\ pc = "main_wait"
    /\ \E d \in AnswerMinutes : now' = now + d
    /\ sessionFile.kind # "absent"
    /\ \E status \in { s \in RunStatuses : IsSessionError(s) } :
        events' = Append(Append(events, Event("main_resp", None, status)),
                         Event("store_error", None, "clear_session_id"))
    /\ CURRENT_SESSION_ID' = None
    /\ CURRENT_SESSION_START' = None
    /\ IF attempt < max_retries
       THEN /\ attempt' = attempt + 1
            /\ pc' = AfterError("clear_session_id", "attempt", "done")
       ELSE /\ pc' = AfterError("clear_session_id", "done", "done")
            /\ UNCHANGED attempt
    /\ UNCHANGED << LAST_RUN_TIME, sessionFile, contextFile, execLog,
                    nextId, io, structured_data, cycles, crashes >>
    /\ UNCHANGED << quiet_window, webIo, requests, monitor >>

\* the same, as one of the failures a cycle may meet
MainSessionErrorClearError ==
    /\ MayFail
    /\ MainSessionErrorClearFails

\* line 237: the session was created and os.makedirs or open of the session
\* file fails
SaveSessionFails ==
    /\ pc = "create_wait"
    /\ \E d \in AnswerMinutes : now' = now + d
    /\ CURRENT_SESSION_ID' = Some(nextId)
    /\ CURRENT_SESSION_START' = Some(now')
    /\ nextId' = nextId + 1
    /\ events' = Append(Append(events, Event("created", Some(nextId), None)),
                        Event("store_error", None, "save_session_id"))
    /\ pc' = AfterError("save_session_id", "prompt", "done")
    /\ UNCHANGED << attempt, LAST_RUN_TIME, sessionFile, contextFile,
                    execLog, io, structured_data, cycles, crashes >>
    /\ UNCHANGED << quiet_window, webIo, requests, monitor >>

\* the same, as one of the failures a cycle may meet
SaveSessionError ==
    /\ MayFail
    /\ SaveSessionFails

\* line 247: the context file exists and reading it fails
LoadContextError ==
    /\ MayFail
    /\ pc = "prompt"
    /\ contextFile.kind # "absent"
    /\ events' = Append(Append(events,
                               Event("store_error", None, "load_context")),
                        Event("main", CURRENT_SESSION_ID, PromptOf(None)))
    /\ pc' = AfterError("load_context", "main_wait", "raised")
    /\ UNCHANGED << now, attempt, CURRENT_SESSION_ID, CURRENT_SESSION_START,
                    LAST_RUN_TIME, sessionFile, contextFile, execLog, nextId,
                    io, structured_data, cycles, crashes >>
    /\ UNCHANGED << quiet_window, webIo, requests, monitor >>

\* line 345: the main call answered 200 with a status map and os.makedirs
\* or open of the context file fails
SaveContextError ==
    /\ MayFail
    /\ pc = "main_wait"
    /\ \E d \in AnswerMinutes : now' = now + d
    /\ \E body \in { b \in AgentTexts :
                        /\ ExtractMain(b).type = "dict"
                        /\ "plant_status" \in DOMAIN ExtractMain(b).val } :
        structured_data' = Some(ExtractMain(body))
    /\ events' = Append(Append(events, Event("main_resp", None, 200)),
                        Event("store_error", None, "save_context"))
    /\ pc' = AfterError("save_context", "log_sink", "log_sink")
    /\ UNCHANGED << attempt, CURRENT_SESSION_ID, CURRENT_SESSION_START,
                    LAST_RUN_TIME, sessionFile, contextFile, execLog, nextId,
                    io, cycles, crashes >>
    /\ UNCHANGED << quiet_window, webIo, requests, monitor >>

\* line 200 or 204: the handover call answered 200, its text gave a map or
\* the "Handover (Raw)" map, and os.makedirs or open of the context file
\* fails
HandoverSaveContextError ==
    /\ MayFail
    /\ pc = "handover_wait"
    /\ \E d \in AnswerMinutes : now' = now + d
    /\ \E body \in { b \in AgentTexts : ExtractHandover(b).type = "dict" } :
        events' = Append(Append(events, Event("handover_ok", None, body)),
                         Event("store_error", None, "save_context"))
    /\ pc' = AfterError("save_context", "handover_clear", "handover_clear")
    /\ UNCHANGED << attempt, CURRENT_SESSION_ID, CURRENT_SESSION_START,
                    LAST_RUN_TIME, sessionFile, contextFile, execLog, nextId,
                    io, structured_data, cycles, crashes >>
    /\ UNCHANGED << quiet_window, webIo, requests, monitor >>

\* the function whose with-block is open
WritingFunction ==
    IF io.file = "session" THEN "save_session_id" ELSE "save_context"

\* what a write that fails leaves in the file at the path: what the file
\* held (nothing of the text has reached it), or the part of the text that
\* was written before the failure, which is not JSON; a handle whose path
\* was unlinked leaves the path alone
AfterFailedWrite(h, held) ==
    IF h.detached THEN { held } ELSE { held, Garbage }

\* lines 91 and 131: the file is open and emptied, and json.dump or the
\* close of the with-block fails (the disk is full): the except of the
\* function logs it and the file keeps what has reached it
SaveWriteError ==
    /\ MayFail
    /\ pc = "writing"
    /\ IF io.file = "session"
       THEN /\ sessionFile' \in AfterFailedWrite(io, sessionFile)
            /\ UNCHANGED contextFile
       ELSE /\ contextFile' \in AfterFailedWrite(io, contextFile)
            /\ UNCHANGED sessionFile
    /\ events' = Append(events, Event("store_error", None, WritingFunction))
    /\ pc' = AfterError(WritingFunction, io.ret,
                        IF io.file = "session" THEN "done" ELSE io.ret)
    /\ io' = NoIo
    /\ UNCHANGED << now, attempt, CURRENT_SESSION_ID, CURRENT_SESSION_START,
                    LAST_RUN_TIME, execLog, nextId, structured_data, cycles,
                    crashes >>
    /\ UNCHANGED << quiet_window, webIo, requests, monitor >>

(***************************************************************************)
(* The scheduler between two cycles, as earlier cycles can have left it:   *)
(* holding no session with no session file or with one a crash left empty, *)
(* or holding the session it created at the first start; with or without   *)
(* the context file of a first successful run.                             *)
(***************************************************************************)
InitFaults ==
    /\ now = InitialClock
    /\ pc = "idle"
    /\ attempt = 0
    /\ \/ /\ CURRENT_SESSION_ID = None
          /\ CURRENT_SESSION_START = None
          /\ sessionFile \in { Absent, Truncated }
       \/ /\ CURRENT_SESSION_ID = Some(1)
          /\ CURRENT_SESSION_START = Some(InitialClock)
          /\ sessionFile = save_session_id(Some(1), Some(InitialClock), InitialClock)
    /\ LAST_RUN_TIME = None
    /\ contextFile \in { Absent,
                          ContextRecord(ContextOf(StatusObject, InitialClock)) }
    /\ sessionFile = Truncated => contextFile = Absent
    /\ execLog = << >>
    /\ nextId = 2
    /\ events = << >>
    /\ io = NoIo
    /\ structured_data = None
    /\ cycles = 0
    /\ crashes = 0
    /\ quiet_window = [start |-> START_QUIET_HOUR, end |-> END_QUIET_HOUR]
    /\ webIo = NoIo
    /\ requests = 0
    /\ monitor = "idle"

\* the timer fires, for the cycles explored from a state between two cycles
FaultsTick ==
    /\ cycles < MaxFaultCycles
    /\ Tick

\* run_job as the timer enters it on the failing disk, from the states
\* earlier cycles can have left: those of InitFaults, and those of a cycle
\* whose save of the session file failed (a session in memory, no file) or
\* whose removal of it failed (no session in memory, the record on file)
InitRunJob ==
    /\ now \in { InitialClock + d : d \in TickDeltas }
    /\ pc = "gate"
    /\ attempt = 0
    /\ \/ /\ CURRENT_SESSION_ID = None
          /\ CURRENT_SESSION_START = None
          /\ sessionFile \in
                { Absent, Truncated,
                  save_session_id(Some(1), Some(InitialClock), InitialClock) }
       \/ /\ CURRENT_SESSION_ID = Some(1)
          /\ CURRENT_SESSION_START = Some(InitialClock)
          /\ sessionFile \in
                { Absent,
                  save_session_id(Some(1), Some(InitialClock), InitialClock) }
    /\ LAST_RUN_TIME = None
    /\ contextFile \in { Absent,
                          ContextRecord(ContextOf(StatusObject, InitialClock)) }
    /\ sessionFile = Truncated => contextFile = Absent
    /\ execLog = << >>
    /\ nextId = 2
    /\ events = << >>
    /\ io = NoIo
    /\ structured_data = None
    /\ cycles = 1
    /\ crashes = 0
    /\ quiet_window = [start |-> START_QUIET_HOUR, end |-> END_QUIET_HOUR]
    /\ webIo = NoIo
    /\ requests = 0
    /\ monitor = "idle"

NextFaults ==
    \/ Gate
    \/ Return
    \/ AttemptBegin
    \/ HandoverSend
    \/ HandoverException
    \/ HandoverResponse
    \/ HandoverClear
    \/ EnsureSession
    \/ CreateResponse
    \/ FlushWrite
    \/ FinishWrite
    \/ SendMain
    \/ MainException
    \/ MainSuccess
    \/ LogSink
    \/ MainSessionError
    \/ MainOtherStatus
    \/ LoadSessionError
    \/ ClearSessionError
    \/ MainSessionErrorClearError
    \/ SaveSessionError
    \/ LoadContextError
    \/ SaveContextError
    \/ HandoverSaveContextError
    \/ SaveWriteError

\* one run of run_job on a disk whose operations may fail
SpecFaults == InitRunJob /\ [][NextFaults]_vars

(***************************************************************************)
(* The scheduler from a state between two cycles, on a disk that works and *)
(* with no crash: the cycles the timer starts, each from the tick to the   *)
(* return of run_job.                                                      *)
(***************************************************************************)
NextCycle ==
    \/ FaultsTick
    \/ Gate
    \/ Return
    \/ AttemptBegin
    \/ HandoverSend
    \/ HandoverException
    \/ HandoverResponse
    \/ HandoverClear
    \/ EnsureSession
    \/ CreateResponse
    \/ FlushWrite
    \/ FinishWrite
    \/ SendMain
    \/ MainException
    \/ MainSuccess
    \/ LogSink
    \/ MainSessionError
    \/ MainOtherStatus

SpecCycle == InitFaults /\ [][NextCycle]_vars

\* the same cycles from the states that hold a session: the ones whose
\* first cycle can find the session aged out and hand it over
InitRotation ==
    /\ InitFaults
    /\ CURRENT_SESSION_ID # None

SpecRotation == InitRotation /\ [][NextCycle]_vars

NextWeb ==
    \/ FaultsTick
    \/ Gate
    \/ Return
    \/ AttemptBegin
    \/ HandoverSend
    \/ HandoverException
    \/ HandoverResponse
    \/ HandoverClear
    \/ EnsureSession
    \/ CreateResponse
    \/ FlushWrite
    \/ FinishWrite
    \/ SendMain
    \/ MainException
    \/ MainSuccess
    \/ LogSink
    \/ MainSessionError
    \/ MainOtherStatus
    \/ WebSetSession
    \/ WebCreateSession
    \/ WebFinishWrite
    \/ WebClearSession
    \/ MonitorStart
    \/ MonitorFinish

\* the scheduler between two cycles, holding the session it created at the
\* first start, before its first successful run
InitWeb ==
    /\ InitFaults
    /\ CURRENT_SESSION_ID # None
    /\ contextFile = Absent

\* the cycles of the scheduler process with the web UI and the monitor
\* script beside it
SpecWeb == InitWeb /\ [][NextWeb]_vars


(***************************************************************************)
(* The scheduler with a session file that can be read but neither written  *)
(* nor removed (SESSION_FILE_PATH on a read-only mount; the context file   *)
(* has its own path, CONTEXT_FILE_PATH, and stays writable).  Every        *)
(* save_session_id and clear_session_id fails and is logged.  The process  *)
(* holds the session that the file records.                                *)
(***************************************************************************)
InitReadOnly ==
    /\ InitFaults
    /\ CURRENT_SESSION_ID # None

\* lines 219-221, 230-232 and 238-240: the creation is refused, answers
\* without an id or raises, and run_job returns
CreateRejected ==
    /\ CreateResponse
    /\ pc' = "done"

NextReadOnly ==
    \/ FaultsTick
    \/ Gate
    \/ Return
    \/ AttemptBegin
    \/ HandoverSend
    \/ HandoverException
    \/ HandoverResponse
    \/ ClearSessionFails
    \/ EnsureSession
    \/ CreateRejected
    \/ SaveSessionFails
    \/ FlushWrite
    \/ FinishWrite
    \/ SendMain
    \/ MainException
    \/ MainSuccess
    \/ LogSink
    \/ MainSessionErrorClearFails
    \/ MainOtherStatus

SpecReadOnly == InitReadOnly /\ [][NextReadOnly]_vars

(***************************************************************************)
(* The Session Store by itself: save_session_id and clear_session_id       *)
(* applied to a session file in any state, each running to its end.        *)
(***************************************************************************)
\* a text fromisoformat does not accept: a date with no time of day in a
\* form it cannot read
NoIsoText == << 0 >>

\* contents the session file may have: none, an empty file, text that is
\* not JSON, JSON that is not a map, and maps with or without a session_id
\* and with no, a parseable, an empty, an unparseable or a non-string
\* start_time, the last true or false in a truth test
StartTimeValues ==
    { None, Some(JsonStr(isoformat(InitialClock))), Some(JsonStr(<< >>)),
      Some(JsonStr(NoIsoText)), Some(JsonNum), Some(JsonFalsy) }
SessionFiles ==
    { Absent, Truncated, Garbage, NonMap }
      \cup { SessionRecord(id, st) : id \in { None, Some(1) },
                                     st \in StartTimeValues }

\* creation times: first, middle and last hour of a day, first, second and
\* last minute of an hour
StoreTimes ==
    { d * MinutesPerDay + h * MinutesPerHour + m :
        d \in 0 .. MaxStoreDay,
        h \in { 0, HoursPerDay \div 2, HoursPerDay - 1 },
        m \in { 0, 1, MinutesPerHour - 1 } }

InitStore ==
    /\ now = InitialClock
    /\ pc = "store"
    /\ attempt = 0
    /\ CURRENT_SESSION_ID = None
    /\ CURRENT_SESSION_START = None
    /\ LAST_RUN_TIME = None
    /\ sessionFile \in SessionFiles
    /\ contextFile = Absent
    /\ execLog = << >>
    /\ nextId = 2
    /\ events = << >>
    /\ io = NoIo
    /\ structured_data = None
    /\ cycles = 0
    /\ crashes = 0
    /\ quiet_window = [start |-> START_QUIET_HOUR, end |-> END_QUIET_HOUR]
    /\ webIo = NoIo
    /\ requests = 0
    /\ monitor = "idle"

\* save_session_id(id, t), lines 83-97, run to its end without an error
StoreSave ==
    /\ pc = "store"
    /\ \E id \in 1 .. MaxSessions, t \in StoreTimes :
        /\ sessionFile' = save_session_id(Some(id), Some(t), now)
        /\ events' = << Event("prior", None, sessionFile.kind),
                        Event("store_save", Some(id), Some(t)) >>
    /\ UNCHANGED << now, pc, attempt, CURRENT_SESSION_ID, CURRENT_SESSION_START,
                    LAST_RUN_TIME, contextFile, execLog, nextId, io,
                    structured_data, cycles, crashes, quiet_window, webIo,
                    requests, monitor >>

\* clear_session_id(), lines 99-106, run to its end without an error
StoreClear ==
    /\ pc = "store"
    /\ sessionFile' = clear_session_id(sessionFile)
    /\ events' = << Event("prior", None, sessionFile.kind),
                    Event("store_clear", None, None) >>
    /\ UNCHANGED << now, pc, attempt, CURRENT_SESSION_ID, CURRENT_SESSION_START,
                    LAST_RUN_TIME, contextFile, execLog, nextId, io,
                    structured_data, cycles, crashes, quiet_window, webIo,
                    requests, monitor >>

NextStore ==
    \/ StoreSave
    \/ StoreClear

SpecStore == InitStore /\ [][NextStore]_vars

(***************************************************************************)
(* The scheduler started on a session file it has not written itself: a    *)
(* record of an earlier version, of the web UI, or a damaged file.  The    *)
(* endpoint has issued session 1 before.                                   *)
(***************************************************************************)
InitBoot ==
    /\ now = InitialClock
    /\ pc = "boot"
    /\ attempt = 0
    /\ CURRENT_SESSION_ID = None
    /\ CURRENT_SESSION_START = None
    /\ LAST_RUN_TIME = None
    /\ sessionFile \in SessionFiles
    /\ contextFile = Absent
    /\ execLog = << >>
    /\ nextId = 2
    /\ events = << >>
    /\ io = NoIo
    /\ structured_data = None
    /\ cycles = 0
    /\ crashes = 0
    /\ quiet_window = [start |-> START_QUIET_HOUR, end |-> END_QUIET_HOUR]
    /\ webIo = NoIo
    /\ requests = 0
    /\ monitor = "idle"

NextBoot ==
    \/ MainStartup
    \/ Tick
    \/ Gate
    \/ Return
    \/ AttemptBegin
    \/ HandoverSend
    \/ HandoverException
    \/ HandoverResponse
    \/ HandoverClear
    \/ EnsureSession
    \/ CreateResponse
    \/ FlushWrite
    \/ FinishWrite
    \/ SendMain
    \/ MainException
    \/ MainSuccess
    \/ LogSink
    \/ MainSessionError
    \/ MainOtherStatus

SpecBoot == InitBoot /\ [][NextBoot]_vars

\* a text that is no creation time: empty, or not in ISO form
Unparseable(v) == v.type = "str" /\ ~IsIsoText(v.text)

\* a record of an earlier version or of the web UI: a session id and no
\* creation time (the key is missing or null), or a text that cannot be
\* parsed
Legacy(f) ==
    /\ f.kind = "record"
    /\ f.session_id # None
    /\ f.start_time = None \/ Unparseable(TheVal(f.start_time))

\* The scheduler with no session in memory and a record on file that it
\* did not write in this run of the process: about to start on a legacy
\* record; or between two cycles, after a creation that failed, with a
\* record the web UI has set since (set_current_session writes a session
\* id and no start_time) or the dated record of an earlier cycle whose
\* removal failed.
InitLegacy ==
    /\ now = InitialClock
    /\ pc \in { "boot", "idle" }
    /\ attempt = 0
    /\ CURRENT_SESSION_ID = None
    /\ CURRENT_SESSION_START = None
    /\ LAST_RUN_TIME = None
    /\ sessionFile \in { f \in SessionFiles :
                            \/ Legacy(f)
                            \/ /\ pc = "idle"
                               /\ f.kind = "record"
                               /\ load_session_id(f)[2] # None }
    /\ contextFile = Absent
    /\ execLog = << >>
    /\ nextId = 2
    /\ events = << >>
    /\ io = NoIo
    /\ structured_data = None
    /\ cycles = 0
    /\ crashes = 0
    /\ quiet_window = [start |-> START_QUIET_HOUR, end |-> END_QUIET_HOUR]
    /\ webIo = NoIo
    /\ requests = 0
    /\ monitor = "idle"

NextLegacy ==
    \/ MainStartup
    \/ NextCycle

\* the start on a legacy record with the run main() makes at once, and the
\* cycles of the timer that find such a record
SpecLegacy == InitLegacy /\ [][NextLegacy]_vars

\* the steps of the run main() makes at the start; no rotation starts in it,
\* since the creation time in memory is empty after a start
NextStartup ==
    \/ MainStartup
    \/ Gate
    \/ Return
    \/ AttemptBegin
    \/ EnsureSession
    \/ CreateResponse
    \/ FlushWrite
    \/ FinishWrite
    \/ SendMain
    \/ MainException
    \/ MainSuccess
    \/ LogSink
    \/ MainSessionError
    \/ MainOtherStatus

\* the start on such a file and the run that main() makes at once
SpecStartup == InitBoot /\ [][NextStartup]_vars

(***************************************************************************)
(* The quiet-hours gate by itself: should_skip_quiet_time() called at any  *)
(* hour, under any configured window, with any last run time.              *)
(***************************************************************************)
\* clocks on day 1: the first and the last minute of every hour
QuietClocks ==
    { MinutesPerDay + h * MinutesPerHour + m :
        h \in 0 .. (HoursPerDay - 1), m \in { 0, MinutesPerHour - 1 } }

\* minutes since the last run: none, few, just below, at and just above
\* QUIET_INTERVAL_MINUTES, and a day
QuietElapsed ==
    { 0, 1, QUIET_INTERVAL_MINUTES - 1, QUIET_INTERVAL_MINUTES,
      QUIET_INTERVAL_MINUTES + 1, MinutesPerDay }

InitQuiet ==
    /\ now \in QuietClocks
    /\ pc = "gate"
    /\ attempt = 0
    /\ CURRENT_SESSION_ID = None
    /\ CURRENT_SESSION_START = None
    /\ LAST_RUN_TIME \in { None } \cup { Some(now - e) : e \in QuietElapsed }
    /\ sessionFile = Absent
    /\ contextFile = Absent
    /\ execLog = << >>
    /\ nextId = 1
    /\ events = << >>
    /\ io = NoIo
    /\ structured_data = None
    /\ cycles = 1
    /\ crashes = 0
    /\ quiet_window \in [ start : 0 .. MaxHour, end : 0 .. MaxHour ]
    /\ webIo = NoIo
    /\ requests = 0
    /\ monitor = "idle"

NextQuiet ==
    \/ Gate

SpecQuiet == InitQuiet /\ [][NextQuiet]_vars

(***************************************************************************)
(* Reading the record of the current cycle.                                *)
(***************************************************************************)
Idx(op) == { i \in 1 .. Len(events) : events[i].op = op }
Min(S) == CHOOSE x \in S : \A y \in S : x <= y
Max(S) == CHOOSE x \in S : \A y \in S : x >= y
\* the remote calls of the cycle
Requests == Idx("handover") \cup Idx("create") \cup Idx("main")
\* the answers of the main call with a status in S
MainAnswers(S) == { i \in Idx("main_resp") : events[i].arg \in S }
\* the step taken appends an answer of the main call with a status in S
AnswersMain(S) ==
    \E i \in (Len(events) + 1) .. Len(events') :
        /\ events'[i].op = "main_resp"
        /\ events'[i].arg \in S
Is5xx(status) == status >= 500 /\ status < 600

(***************************************************************************)
(* C1 (as claimed): after a cycle whose main run returned 200 and was      *)
(* logged at time t, no cycle of the same process passes the quiet-hours   *)
(* gate at an hour inside the quiet window less than                       *)
(* QUIET_INTERVAL_MINUTES after t: such a tick is skipped.                 *)
(***************************************************************************)
C1_QuietTickSkipped ==
    ( /\ pc = "attempt"
      /\ crashes = 0
      /\ execLog # << >>
      /\ is_quiet_hour(HourOf(now)) )
    => now - execLog[Len(execLog)].timestamp >= QUIET_INTERVAL_MINUTES

(***************************************************************************)
(* C2 (as claimed): the main prompt is never sent on a session whose       *)
(* Session Record carries a creation time at least SESSION_LIFETIME_DAYS   *)
(* old, also after a restart restored the session in main().               *)
(***************************************************************************)
C2_NoMainOnAgedSession ==
    ( /\ pc = "main_wait"
      /\ sessionFile.kind = "record"
      /\ sessionFile.session_id = CURRENT_SESSION_ID
      /\ load_session_id(sessionFile)[2] # None )
    => (now - TheVal(load_session_id(sessionFile)[2])) \div MinutesPerDay
           < SESSION_LIFETIME_DAYS

(***************************************************************************)
(* C3: every answer 404 or 5xx of the main run clears the session file and *)
(* the session held in memory, and on the first attempt starts the second  *)
(* attempt.  Line 389 names 404 and 500 only: an answer 503 ends the cycle *)
(* with the session kept.                                                  *)
(***************************************************************************)
InvalidationStep ==
    /\ sessionFile' = Absent
    /\ CURRENT_SESSION_ID' = None
    /\ CURRENT_SESSION_START' = None
    /\ attempt = 0 => (pc' = "attempt" /\ attempt' = 1)
    /\ attempt # 0 => pc' = "done"

C3_Any5xxInvalidates ==
    [][ (pc = "main_wait"
         /\ AnswersMain({ s \in RunStatuses : s = 404 \/ Is5xx(s) }))
        => InvalidationStep ]_vars

(***************************************************************************)
(* C4: in one cycle the main prompt is sent at most twice and a session is *)
(* created at most twice; after a first answer 404 the next remote call is *)
(* a session creation, a second main prompt goes to another session id     *)
(* with the same prompt; after a second answer 404 nothing more is sent    *)
(* and the cycle ends with the session file removed.                       *)
(***************************************************************************)
C4_RetryOnce ==
    LET mains == Idx("main")
        notFound == MainAnswers({ 404 })
    IN  /\ Cardinality(mains) <= 2
        /\ Cardinality(Idx("create")) <= 2
        /\ \A i \in notFound :
             LET before == { m \in mains : m < i }
                 later == { j \in Requests : j > i }
             IN  IF Cardinality(before) = 1
                 THEN /\ later # {} => events[Min(later)].op = "create"
                      /\ \A m \in mains :
                           m > i => /\ events[m].sid # events[Min(mains)].sid
                                    /\ events[m].sid # None
                                    /\ events[m].arg = events[Min(mains)].arg
                 ELSE later = {}
        /\ (pc = "done" /\ Cardinality(notFound) = 2)
             => /\ sessionFile = Absent
                /\ CURRENT_SESSION_ID = None

\* a cycle that was answered 404 twice has ended
C4_Witness ==
    /\ pc = "done"
    /\ Cardinality(MainAnswers({ 404 })) = 2
    /\ Cardinality(Idx("main")) = 2
    /\ Cardinality(Idx("created")) = 2


(***************************************************************************)
(* C5: in a cycle that finds the session aged out, the handover prompt on  *)
(* the old session id is the first remote call; the Context Store is       *)
(* written from the handover result before the session file is removed;    *)
(* the removal precedes the creation of the new session, its save and the  *)
(* main prompt, which goes to the new id and never to the old one.         *)
(***************************************************************************)
C5_RotationOrder ==
    LET hs == Idx("handover")
        mains == Idx("main")
        clears == Idx("clear_session")
        oks == Idx("handover_ok")
    IN  hs # {} =>
          LET h == Min(hs) IN
          /\ h = Min(Requests)
          /\ events[h].sid # None
          /\ \A m \in mains : events[m].sid # events[h].sid
          /\ \A x \in Idx("save_context") :
               (mains = {} \/ x < Min(mains))
                 => /\ h < x
                    /\ \A c \in clears : x < c
          /\ (pc = "handover_clear" /\ oks # {}
                /\ ExtractHandover(events[Min(oks)].arg).type = "dict")
               => /\ Idx("save_context") # {}
                  /\ contextFile = ContextRecord(
                        ContextOf(ExtractHandover(events[Min(oks)].arg).val, now))
          /\ mains # {} =>
               \E c \in clears, k \in Idx("created"), w \in Idx("save_session") :
                  /\ h < c /\ c < k /\ k < w /\ w < Min(mains)
                  /\ events[k].sid = events[Min(mains)].sid
                  /\ events[w].sid = events[Min(mains)].sid

\* the five events have happened in one cycle
C5_Witness ==
    /\ pc = "main_wait"
    /\ Idx("handover") # {}
    /\ Idx("save_context") # {}
    /\ Idx("clear_session") # {}
    /\ Idx("save_session") # {}
    /\ Cardinality(Idx("main")) = 1

(***************************************************************************)
(* C6: whatever the handover call yields (exception, status other than     *)
(* 200, 200 with a body that is not JSON or does not parse), the cycle     *)
(* goes on: the old session is forgotten and its file removed, a session   *)
(* creation is attempted, and if a session is created the main prompt is   *)
(* sent.                                                                   *)
(***************************************************************************)
C6_HandoverBestEffort ==
    LET hs == Idx("handover") IN
    hs # {} =>
      /\ pc = "done" =>
           /\ \E c \in Idx("clear_session"), r \in Idx("create") :
                 Min(hs) < c /\ c < r
           /\ Idx("created") # {} => Idx("main") # {}
      /\ (pc = "session" /\ Idx("create") = {}) =>
           /\ events[Len(events)].op = "clear_session"
           /\ CURRENT_SESSION_ID = None
           /\ CURRENT_SESSION_START = None
           /\ sessionFile = Absent

\* a cycle whose handover call failed has sent its main prompt and ended
C6_Witness ==
    /\ pc = "done"
    /\ Idx("handover_failed") # {}
    /\ Idx("main") # {}

(***************************************************************************)
(* C7 (as claimed): a cycle in which session creation fails issues no      *)
(* POST /run at all, and ends with no session in memory or on file.        *)
(***************************************************************************)
C7_NoRunInFailedCycle ==
    Idx("create_failed") # {} =>
      /\ Idx("main") \cup Idx("handover") = {}
      /\ CURRENT_SESSION_ID = None
      /\ load_session_id(sessionFile) = << None, None >>

(***************************************************************************)
(* C7 (amended): a failed session creation is the last thing its cycle     *)
(* does: the cycle ends there, no POST /run follows it, and no session is  *)
(* held in memory or loadable from the session file.                       *)
(***************************************************************************)
C7_FailedCreateEndsCycle ==
    Idx("create_failed") # {} =>
      /\ pc = "done"
      /\ Max(Idx("create_failed")) = Len(events)
      /\ CURRENT_SESSION_ID = None
      /\ CURRENT_SESSION_START = None
      /\ load_session_id(sessionFile) = << None, None >>

\* a creation failed in a cycle that had already posted a main prompt
C7_Witness ==
    /\ pc = "done"
    /\ Idx("create_failed") # {}
    /\ Idx("main") # {}

(***************************************************************************)
(* C8: when the main call ends with an exception or with a status that is  *)
(* neither 200 nor a session error, the cycle ends without a retry and the *)
(* session file, the session in memory, the context file and the execution *)
(* log are left as they were.                                              *)
(***************************************************************************)
C8_OtherFailureFrame ==
    [][ ( /\ pc = "main_wait"
          /\ \/ AnswersMain({ s \in RunStatuses : s \notin { 200, 404, 500 } })
             \/ /\ Len(events') = Len(events) + 1
                /\ events'[Len(events')].op = "main_exception" )
        => /\ pc' = "done"
           /\ UNCHANGED << sessionFile, CURRENT_SESSION_ID,
                           CURRENT_SESSION_START, contextFile, execLog >> ]_vars

\* a cycle ended on such a failure with its session still in place
C8_Witness ==
    /\ pc = "done"
    /\ \/ MainAnswers({ 503, 400 }) # {}
       \/ Idx("main_exception") # {}
    /\ Cardinality(Idx("main")) = 1
    /\ CURRENT_SESSION_ID # None
    /\ sessionFile.kind = "record"

(***************************************************************************)
(* C9 (as claimed): a save is atomic with respect to a crash: when the     *)
(* process starts again, each of the two files is either absent or holds a *)
(* complete record, never an empty or cut-off one.                         *)
(***************************************************************************)
C9_CrashAtomicSave ==
    pc = "boot" =>
      /\ sessionFile.kind \notin { "truncated", "garbage" }
      /\ contextFile.kind \notin { "truncated", "garbage" }

(***************************************************************************)
(* C10 (as claimed): every cycle reads the Session Record at its top: the   *)
(* first attempt of a cycle goes on with the session id the session file   *)
(* holds at that point, whatever the other programs wrote into the file    *)
(* since the cycle before, and with no session when the file is gone.      *)
(***************************************************************************)
C10_RecordReadEveryCycle ==
    [][ ( /\ pc = "attempt"
          /\ attempt = 0
          /\ pc' \in { "handover_send", "session" } ) =>
            CURRENT_SESSION_ID' = load_session_id(sessionFile)[1] ]_vars

(***************************************************************************)
(* C11 (as claimed): every remote call of a cycle is bounded by a timeout, *)
(* so the process is never blocked for good in a call the endpoint does    *)
(* not answer: every call in flight ends and run_job returns.              *)
(***************************************************************************)
C11_NoCallHangs ==
    pc # "hung"

(***************************************************************************)
(* C12: whatever the remote calls, the store operations and the log sink   *)
(* yield, no exception leaves run_job: the process never stands outside    *)
(* run_job with an exception that ends the loop of main().                 *)
(***************************************************************************)
C12_RunJobNeverRaises ==
    pc # "raised"

\* a cycle in which a store operation failed and a remote call raised has
\* ended in the ordinary way
C12_Witness ==
    /\ pc = "done"
    /\ Idx("store_error") # {}
    /\ Idx("main_exception") \cup Idx("handover_failed") # {}

\* the log entries written in the current cycle (the clock moves on between
\* two cycles)
EntriesOfCycle == { i \in 1 .. Len(execLog) : execLog[i].timestamp = now }

(***************************************************************************)
(* C13: a cycle whose main call was answered 200 has appended exactly one  *)
(* log entry when it ends, with the id of the session the prompt of that   *)
(* attempt was sent on and a UTC timestamp, and a cycle with no such       *)
(* answer has appended none.  A 200 whose body is not JSON, or is null, a  *)
(* number or a boolean, ends the cycle at line 405 before the Firestore    *)
(* block; with no credentials in the environment the block skips the save. *)
(***************************************************************************)
C13_EveryOkRunLogged ==
    pc = "done" =>
      IF MainAnswers({ 200 }) # {}
      THEN /\ Cardinality(EntriesOfCycle) = 1
           /\ \A i \in EntriesOfCycle :
                /\ execLog[i].session_id = events[Max(Idx("main"))].sid
                /\ execLog[i].tzinfo = "utc"
      ELSE EntriesOfCycle = {}

\* the result extracted by the step taken is a map with plant_status
ExtractedStatusMap ==
    /\ structured_data' # None
    /\ TheVal(structured_data').type = "dict"
    /\ "plant_status" \in DOMAIN TheVal(structured_data').val

(***************************************************************************)
(* C14: when the main call is answered 200 and the extracted result is a   *)
(* map with plant_status, the context file is opened and then written with *)
(* the result's plant_status, growth_stage, operation (as last_operation)  *)
(* and comment (as last_comment) and the time of the run; when the result  *)
(* is another map, the raw_output fallback or not a map, the run leaves    *)
(* the context file as it was.                                             *)
(***************************************************************************)
C14_ContextOverwrittenOnStatus ==
    [][ /\ (pc = "main_wait" /\ AnswersMain({ 200 })) =>
             IF ExtractedStatusMap
             THEN LET r == TheVal(structured_data').val IN
                  /\ pc' = "writing"
                  /\ io'.file = "context"
                  /\ io'.ret = "log_sink"
                  /\ io'.data =
                        [ kind |-> "record",
                          context |->
                            [ timestamp      |-> now',
                              plant_status   |-> Some(r.plant_status),
                              growth_stage   |-> Get(r, "growth_stage"),
                              last_operation |-> Get(r, "operation"),
                              last_comment   |-> Get(r, "comment") ] ]
             ELSE UNCHANGED contextFile
        /\ (pc = "writing" /\ pc' = "log_sink") => contextFile' = io.data
        /\ (pc = "log_sink" /\ pc' = "done") => UNCHANGED contextFile ]_vars

\* the snapshot of a run with a status map is on file when the run is logged
C14_Witness ==
    /\ pc = "log_sink"
    /\ TheVal(structured_data).type = "dict"
    /\ "plant_status" \in DOMAIN TheVal(structured_data).val
    /\ contextFile.kind = "record"
    /\ contextFile.context.timestamp = now
    /\ contextFile.context.last_operation = Some("water")
    /\ contextFile.context.last_comment = Some("watered")

\* a remote call is in flight
InFlight == pc \in { "handover_wait", "create_wait", "main_wait" }

(***************************************************************************)
(* C15: while a remote call is in flight the scheduler does not touch the  *)
(* session file, it writes only in the step that receives the answer.      *)
(* While the main call is in flight the session file names the session the *)
(* prompt was sent on; a crash at that point leaves the file as it is, the *)
(* next start restores the id the file names, and the first remote call of *)
(* the cycle that follows is the main prompt on that id.                   *)
(***************************************************************************)
C15_CrashInFlightKeepsSession ==
    [][ /\ (InFlight /\ pc' # pc /\ sessionFile' # sessionFile) =>
             /\ Len(events') > Len(events)
             /\ pc' \notin { "handover_wait", "create_wait", "main_wait",
                              "hung", "boot" }
        /\ pc = "main_wait" =>
             /\ sessionFile.kind = "record"
             /\ sessionFile.session_id = events[Max(Idx("main"))].sid
             /\ sessionFile.session_id # None
        /\ (InFlight /\ pc' = "boot") => UNCHANGED sessionFile
        /\ (pc = "boot" /\ pc' = "gate") =>
             /\ CURRENT_SESSION_ID' = load_session_id(sessionFile)[1]
             /\ events' = << Event("restored", CURRENT_SESSION_ID', None) >>
             /\ sessionFile.kind = "record" =>
                    CURRENT_SESSION_ID' = sessionFile.session_id
        /\ ( /\ pc' = "main_wait" /\ pc # "main_wait"
             /\ Idx("restored") # {}
             /\ events[1].sid # None
             /\ Idx("main") = {} ) =>
             /\ Requests = {}
             /\ events'[Len(events')].sid = events[1].sid ]_vars

\* the process was killed and started again with the record of session 1
\* on file, the only session created so far; the start restored that id
\* and the first remote call of its run is the main prompt on it
C15_Witness ==
    /\ pc = "main_wait"
    /\ crashes = 1
    /\ nextId = 2
    /\ sessionFile.kind = "record"
    /\ events[1] = Event("restored", sessionFile.session_id, None)
    /\ sessionFile.session_id = Some(1)
    /\ Requests = Idx("main")
    /\ events[Max(Idx("main"))].sid = Some(1)

(***************************************************************************)
(* C16: whatever the session file held before, load_session_id() after a   *)
(* save_session_id(id, t) returns (id, t), and after a clear_session_id()  *)
(* it returns (None, None).                                                *)
(***************************************************************************)
C16_SessionStoreRoundTrip ==
    events # << >> =>
      LET last == events[Len(events)] IN
      /\ last.op = "store_save" =>
            load_session_id(sessionFile) = << last.sid, last.arg >>
      /\ last.op = "store_clear" =>
            load_session_id(sessionFile) = << None, None >>

\* a record with a creation time off the full hour has replaced another
\* record and is read back
C16_Witness ==
    /\ Len(events) = 2
    /\ events[1].arg = "record"
    /\ events[2].op = "store_save"
    /\ events[2].sid = Some(2)
    /\ events[2].arg = Some(2 * MinutesPerDay - 1)
    /\ load_session_id(sessionFile) = << Some(2), Some(2 * MinutesPerDay - 1) >>

\* the session file is missing, is not JSON, is JSON but not a map, or is a
\* map without session_id
Unloadable(f) ==
    \/ f.kind \in { "absent", "truncated", "garbage", "non_map" }
    \/ f.kind = "record" /\ f.session_id = None

(***************************************************************************)
(* C17: on a session file that is missing, not JSON, not a map or a map    *)
(* without session_id, load_session_id returns (None, None) and nothing is *)
(* raised; the start and the cycle go on with no session held, the file is *)
(* left as it is, and the next thing the cycle does is to create a         *)
(* session, as on a first start.                                           *)
(***************************************************************************)
C17_UnloadableRecordIsNoSession ==
    [][ Unloadable(sessionFile) =>
          /\ load_session_id(sessionFile) = << None, None >>
          /\ pc' # "raised"
          /\ (pc = "boot" /\ pc' = "gate") => CURRENT_SESSION_ID' = None
          /\ (pc = "attempt" /\ CURRENT_SESSION_ID = None) =>
                /\ pc' = "session"
                /\ CURRENT_SESSION_ID' = None
                /\ CURRENT_SESSION_START' = None
                /\ UNCHANGED sessionFile
          /\ (pc = "session" /\ CURRENT_SESSION_ID = None) =>
                /\ pc' = "create_wait"
                /\ events' = Append(events, Event("create", None, None)) ]_vars

\* started on a file that is there and cannot be loaded, the first cycle
\* has asked for a new session as its first remote call
C17_Witness ==
    /\ pc = "create_wait"
    /\ cycles = 1
    /\ Unloadable(sessionFile)
    /\ sessionFile.kind \in { "garbage", "non_map", "record" }
    /\ Requests = Idx("create")
    /\ events[1] = Event("restored", None, None)

(***************************************************************************)
(* C18: a record with a session id and no creation time (missing or null), *)
(* or with a creation time text that is empty or cannot be parsed, is      *)
(* loaded as (id, None); while it is the record on file no handover is     *)
(* sent, however long ago the cycle before was, and the file changes only  *)
(* in a step that receives the answer 404 or 500 of the main call.         *)
(***************************************************************************)
C18_LegacyRecordKept ==
    [][ Legacy(sessionFile) =>
          /\ load_session_id(sessionFile) = << sessionFile.session_id, None >>
          /\ pc' \notin { "handover_send", "handover_wait", "handover_clear" }
          /\ sessionFile' # sessionFile =>
                (pc = "main_wait" /\ AnswersMain({ 404, 500 })) ]_vars

\* a cycle that began a session lifetime after the last one has loaded a
\* record whose creation time cannot be parsed and has sent the main prompt
\* on its session as its first remote call
C18_Witness ==
    /\ pc = "main_wait"
    /\ now >= InitialClock + SESSION_LIFETIME_DAYS * MinutesPerDay
    /\ Legacy(sessionFile)
    /\ sessionFile.start_time = Some(JsonStr(NoIsoText))
    /\ CURRENT_SESSION_ID = sessionFile.session_id
    /\ CURRENT_SESSION_START = None
    /\ Requests = Idx("main")
    /\ events[Max(Idx("main"))].sid = sessionFile.session_id

\* the gate has answered true: run_job has returned at line 144
Skipped ==
    /\ pc = "done"
    /\ events # << >>
    /\ events[Len(events)].op = "skipped"

(***************************************************************************)
(* C19: at an hour inside the quiet window should_skip_quiet_time returns  *)
(* true exactly when a last run time is recorded and less than             *)
(* QUIET_INTERVAL_MINUTES have passed since; it returns false with no last *)
(* run and from QUIET_INTERVAL_MINUTES on.                                 *)
(***************************************************************************)
C19_SkipInsideWindow ==
    (pc \in { "done", "attempt" } /\ is_quiet_hour(HourOf(now))) =>
      /\ Skipped <=> ( /\ LAST_RUN_TIME # None
                       /\ now - TheVal(LAST_RUN_TIME) < QUIET_INTERVAL_MINUTES )
      /\ LAST_RUN_TIME = None => pc = "attempt"
      /\ ( /\ LAST_RUN_TIME # None
           /\ now - TheVal(LAST_RUN_TIME) >= QUIET_INTERVAL_MINUTES )
            => pc = "attempt"

\* a call one minute before the end of the quiet interval has been skipped
C19_Witness ==
    /\ Skipped
    /\ is_quiet_hour(HourOf(now))
    /\ LAST_RUN_TIME = Some(now - (QUIET_INTERVAL_MINUTES - 1))

(***************************************************************************)
(* C20: the quiet window is the hours from START_QUIET_HOUR up to and      *)
(* without END_QUIET_HOUR, going round midnight when the start is greater  *)
(* than the end and empty when they are equal; at an hour outside it       *)
(* should_skip_quiet_time returns false whatever the last run time is; the *)
(* call changes nothing of the process but its position and its log.       *)
(***************************************************************************)
C20_WindowHalfOpen ==
    [][ pc = "gate" =>
          LET hour == HourOf(now)
              start == quiet_window.start
              end == quiet_window.end
              inside == IF start > end
                        THEN hour >= start \/ hour < end
                        ELSE start <= hour /\ hour < end
          IN  /\ is_quiet_hour(hour) <=> inside
              /\ start = end => ~is_quiet_hour(hour)
              /\ ~inside => (pc' = "attempt" /\ UNCHANGED events)
              /\ UNCHANGED << now, CURRENT_SESSION_ID, CURRENT_SESSION_START,
                              LAST_RUN_TIME, sessionFile, contextFile, execLog,
                              nextId, io, structured_data, cycles, crashes,
                              quiet_window >> ]_vars

\* at the end hour of a window that goes round midnight a call one minute
\* after the last run has not been skipped
C20_Witness ==
    /\ pc = "attempt"
    /\ quiet_window.start > quiet_window.end
    /\ HourOf(now) = quiet_window.end
    /\ LAST_RUN_TIME = Some(now - 1)


(***************************************************************************)
(* Text.  A Python str is the sequence of its characters, each a           *)
(* one-character string; indices of str.find and str.rfind count from 0 as *)
(* in the source.  The texts of this model are written over the characters *)
(* { } [ ] " : , backtick, space, letters and digits 1-9: no backslash,    *)
(* no control character but the newline, no minus sign, 0, point or        *)
(* exponent, and no way to spell null, true, false, NaN or Infinity.       *)
(***************************************************************************)
StrWhitespace == { " ", "\n", "\t", "\r" }
JsonWhitespace == { " ", "\n", "\t", "\r" }
ControlChars == { "\n", "\t", "\r" }
Digits == { "1", "2", "3", "4", "5", "6", "7", "8", "9" }

RECURSIVE lstrip(_)
lstrip(s) ==
    IF s # << >> /\ Head(s) \in StrWhitespace THEN lstrip(Tail(s)) ELSE s

RECURSIVE rstrip(_)
rstrip(s) ==
    IF s # << >> /\ s[Len(s)] \in StrWhitespace
    THEN rstrip(SubSeq(s, 1, Len(s) - 1)) ELSE s

\* str.strip()
strip(s) == rstrip(lstrip(s))

\* str.startswith(p), str.endswith(p)
startswith(s, p) == Len(s) >= Len(p) /\ SubSeq(s, 1, Len(p)) = p
endswith(s, p) == Len(s) >= Len(p) /\ SubSeq(s, Len(s) - Len(p) + 1, Len(s)) = p

\* s[a:b] for 0 <= a, b <= len(s)
slice(s, a, b) == SubSeq(s, a + 1, b)

\* s.find(c, from): the first index >= from that holds c, or -1
find(s, c, from) ==
    LET S == { i \in from .. Len(s) - 1 : s[i + 1] = c }
    IN  IF S = {} THEN -1 ELSE Min(S)

\* s.rfind(c): the last index that holds c, or -1
rfind(s, c) ==
    LET S == { i \in 0 .. Len(s) - 1 : s[i + 1] = c }
    IN  IF S = {} THEN -1 ELSE Max(S)

(***************************************************************************)
(* JSON values as json.loads builds them.  A dict is the sequence of its   *)
(* items in insertion order, keys unique; a number is kept by its digits.  *)
(***************************************************************************)
VStr(chars) == [type |-> "str", val |-> chars]
VInt(digits) == [type |-> "int", val |-> digits]
VList(items) == [type |-> "list", val |-> items]
VDict(items) == [type |-> "dict", val |-> items]
Item(k, v) == [k |-> k, v |-> v]

\* key in d
HasKey(d, key) == \E i \in 1 .. Len(d.val) : d.val[i].k = key
\* d[key]
Lookup(d, key) == d.val[CHOOSE i \in 1 .. Len(d.val) : d.val[i].k = key].v
\* d[key] = v on the items of a dict: a key already there keeps its place
Put(items, key, v) ==
    IF \E i \in 1 .. Len(items) : items[i].k = key
    THEN [ i \in 1 .. Len(items) |->
             IF items[i].k = key THEN Item(key, v) ELSE items[i] ]
    ELSE Append(items, Item(key, v))
\* the truth value of a JSON value of these types
Truthy(v) == v.val # << >>

(***************************************************************************)
(* json.loads (json/decoder.py of the standard library): raw_decode from   *)
(* the first character that is not white space, then nothing but white     *)
(* space up to the end.  Positions count from 1; a result is the value and *)
(* the position after it, or a failure (json.JSONDecodeError).             *)
(***************************************************************************)
Fail == [ok |-> FALSE]
Ok(v, e) == [ok |-> TRUE, val |-> v, end |-> e]
At(s, i) == IF i >= 1 /\ i <= Len(s) THEN s[i] ELSE ""

RECURSIVE SkipWs(_, _)
SkipWs(s, i) == IF At(s, i) \in JsonWhitespace THEN SkipWs(s, i + 1) ELSE i

\* the character a backslash escape stands for; \b, \f and \u are not
\* written by json.dumps on the texts of this model
Unescaped(c) ==
    CASE c = "n" -> "\n"
      [] c = "r" -> "\r"
      [] c = "t" -> "\t"
      [] OTHER   -> c

\* py_scanstring from position i inside a string, strict mode; chars is the
\* content read so far
RECURSIVE scanstring(_, _, _)
scanstring(s, i, chars) ==
    IF i > Len(s) THEN Fail
    ELSE IF s[i] = "\"" THEN Ok(chars, i + 1)
    ELSE IF s[i] \in ControlChars THEN Fail
    ELSE IF s[i] = "\\"
    THEN IF At(s, i + 1) \in { "\"", "\\", "/", "n", "r", "t" }
         THEN scanstring(s, i + 2, Append(chars, Unescaped(s[i + 1])))
         ELSE Fail
    ELSE scanstring(s, i + 1, Append(chars, s[i]))

\* the end of the match of NUMBER_RE at position i, on digits 1-9
RECURSIVE NumberEnd(_, _)
NumberEnd(s, i) == IF At(s, i) \in Digits THEN NumberEnd(s, i + 1) ELSE i

RECURSIVE scan_once(_, _)
RECURSIVE JSONObject(_, _, _)
RECURSIVE JSONArray(_, _, _)

\* py_make_scanner's _scan_once
scan_once(s, i) ==
    LET c == At(s, i)
    IN  IF c = "\""
        THEN LET r == scanstring(s, i + 1, << >>)
             IN  IF r.ok THEN Ok(VStr(r.val), r.end) ELSE Fail
        ELSE IF c = "{"
        THEN LET j == SkipWs(s, i + 1)
             IN  IF At(s, j) = "}" THEN Ok(VDict(<< >>), j + 1)
                 ELSE IF At(s, j) = "\"" THEN JSONObject(s, j + 1, << >>)
                 ELSE Fail
        ELSE IF c = "["
        THEN LET j == SkipWs(s, i + 1)
             IN  IF At(s, j) = "]" THEN Ok(VList(<< >>), j + 1)
                 ELSE JSONArray(s, j, << >>)
        ELSE IF c \in Digits
        THEN LET e == NumberEnd(s, i) IN Ok(VInt(SubSeq(s, i, e - 1)), e)
        ELSE Fail

\* the loop of JSONObject from the position after the opening quote of a key
JSONObject(s, i, items) ==
    LET key == scanstring(s, i, << >>)
    IN  IF ~key.ok THEN Fail
        ELSE LET c == SkipWs(s, key.end)
        IN  IF At(s, c) # ":" THEN Fail
        ELSE LET value == scan_once(s, SkipWs(s, c + 1))
        IN  IF ~value.ok THEN Fail
        ELSE LET got == Put(items, key.val, value.val)
                 n == SkipWs(s, value.end)
        IN  IF At(s, n) = "}" THEN Ok(VDict(got), n + 1)
            ELSE IF At(s, n) # "," THEN Fail
            ELSE LET q == SkipWs(s, n + 1)
                 IN  IF At(s, q) = "\"" THEN JSONObject(s, q + 1, got)
                     ELSE Fail

\* the loop of JSONArray from the position of an element
JSONArray(s, i, items) ==
    LET value == scan_once(s, i)
    IN  IF ~value.ok THEN Fail
        ELSE LET got == Append(items, value.val)
                 n == SkipWs(s, value.end)
        IN  IF At(s, n) = "]" THEN Ok(VList(got), n + 1)
            ELSE IF At(s, n) # "," THEN Fail
            ELSE JSONArray(s, SkipWs(s, n + 1), got)

\* json.loads(s): the value, or None for json.JSONDecodeError
json_loads(s) ==
    LET r == scan_once(s, SkipWs(s, 1))
    IN  IF r.ok /\ SkipWs(s, r.end) = Len(s) + 1 THEN Some(r.val) ELSE None

(***************************************************************************)
(* json.dumps with the default separators ", " and ": ".                   *)
(***************************************************************************)
\* py_encode_basestring_ascii on one character
Escaped(c) ==
    CASE c = "\""  -> << "\\", "\"" >>
      [] c = "\\" -> << "\\", "\\" >>
      [] c = "\n"  -> << "\\", "n" >>
      [] c = "\r"  -> << "\\", "r" >>
      [] c = "\t"  -> << "\\", "t" >>
      [] OTHER     -> << c >>

RECURSIVE EscapedText(_)
EscapedText(chars) ==
    IF chars = << >> THEN << >>
    ELSE Escaped(Head(chars)) \o EscapedText(Tail(chars))

Quoted(chars) == << "\"" >> \o EscapedText(chars) \o << "\"" >>

RECURSIVE json_dumps(_)
RECURSIVE DumpItems(_, _)
json_dumps(v) ==
    IF v.type = "str" THEN Quoted(v.val)
    ELSE IF v.type = "int" THEN v.val
    ELSE IF v.type = "list" THEN << "[" >> \o DumpItems(v.val, FALSE) \o << "]" >>
    ELSE << "{" >> \o DumpItems(v.val, TRUE) \o << "}" >>

\* the elements of a list, or the items of a dict, separated by ", "
DumpItems(items, keyed) ==
    IF items = << >> THEN << >>
    ELSE LET one == IF keyed
                    THEN Quoted(Head(items).k) \o << ":", " " >>
                         \o json_dumps(Head(items).v)
                    ELSE json_dumps(Head(items))
         IN  IF Len(items) = 1 THEN one
             ELSE one \o << ",", " " >> \o DumpItems(Tail(items), keyed)


(***************************************************************************)
(* The keys the scheduler reads and writes, as texts.                      *)
(***************************************************************************)
K_content == << "c", "o", "n", "t", "e", "n", "t" >>
K_parts == << "p", "a", "r", "t", "s" >>
K_text == << "t", "e", "x", "t" >>
K_raw_output == << "r", "a", "w", "_", "o", "u", "t", "p", "u", "t" >>
K_plant_status ==
    << "p", "l", "a", "n", "t", "_", "s", "t", "a", "t", "u", "s" >>
K_growth_stage ==
    << "g", "r", "o", "w", "t", "h", "_", "s", "t", "a", "g", "e" >>
K_operation == << "o", "p", "e", "r", "a", "t", "i", "o", "n" >>
K_comment == << "c", "o", "m", "m", "e", "n", "t" >>
HandoverRaw ==
    << "H", "a", "n", "d", "o", "v", "e", "r", " ", "(", "R", "a", "w", ")" >>

\* the text of a key that save_context reads
KeyText(name) ==
    CASE name = "plant_status" -> K_plant_status
      [] name = "growth_stage" -> K_growth_stage
      [] name = "operation"    -> K_operation
      [] name = "comment"      -> K_comment

\* a parsed dict as save_context reads it: data.get(name) for the four names
\* of lines 123-127
Named(d) ==
    [ name \in { n \in { "plant_status", "growth_stage", "operation", "comment" } :
                   HasKey(d, KeyText(n)) } |-> Lookup(d, KeyText(name)) ]

(***************************************************************************)
(* Lines 294-305: the agent text of a 200 answer of the main call.  The    *)
(* answers of this model are lists of maps whose content, when present, is *)
(* a map, whose parts are a list of maps and whose text is a string; or a  *)
(* map that is not a list of events.                                       *)
(***************************************************************************)
\* lines 300-301
PartText(part) ==
    IF HasKey(part, K_text) THEN Lookup(part, K_text).val ELSE << >>

RECURSIVE PartsText(_)
PartsText(parts) ==
    IF parts = << >> THEN << >>
    ELSE PartText(Head(parts)) \o PartsText(Tail(parts))

RECURSIVE EventsText(_)

\* an agent text that takes the first part of each event only
EventText_FirstPart(event) ==
    IF HasKey(event, K_content) /\ Truthy(Lookup(event, K_content))
       /\ HasKey(Lookup(event, K_content), K_parts)
       /\ Lookup(Lookup(event, K_content), K_parts).val # << >>
    THEN PartText(Head(Lookup(Lookup(event, K_content), K_parts).val))
    ELSE << >>

\* lines 297-301
EventText(event) ==
    IF HasKey(event, K_content) /\ Truthy(Lookup(event, K_content))
    THEN IF HasKey(Lookup(event, K_content), K_parts)
         THEN PartsText(Lookup(Lookup(event, K_content), K_parts).val)
         ELSE << >>
    ELSE << >>

EventsText(evs) ==
    IF evs = << >> THEN << >>
    ELSE EventText(Head(evs)) \o EventsText(Tail(evs))

\* lines 294-301: agent_text before the fallback
ConcatText(data) ==
    IF data.type = "list" THEN EventsText(data.val) ELSE << >>

\* lines 294-305: agent_text as the extraction reads it
AgentText(data) ==
    IF ConcatText(data) = << >> THEN json_dumps(data) ELSE ConcatText(data)

(***************************************************************************)
(* Lines 308-313 (and 193-196 of the handover): trim, drop a leading       *)
(* fence opener, drop a trailing fence, trim.  Each end is tested on its   *)
(* own.                                                                    *)
(***************************************************************************)
\* the grave accent U+0060, which a TLA+ string cannot hold
Backtick == "U+0060"
FenceOpen == << Backtick, Backtick, Backtick, "j", "s", "o", "n" >>
FenceClose == << Backtick, Backtick, Backtick >>

CleanText(text) ==
    LET a == strip(text)
        b == IF startswith(a, FenceOpen) THEN slice(a, Len(FenceOpen), Len(a)) ELSE a
        c == IF endswith(b, FenceClose) THEN slice(b, 0, Len(b) - Len(FenceClose)) ELSE b
    IN  strip(c)

(***************************************************************************)
(* Lines 320-330: the brace scan.  tried is the start indices whose        *)
(* candidate was handed to json.loads, in order; value is the first parse  *)
(* that succeeded.                                                         *)
(***************************************************************************)
\* a scan that closes the candidate at the first "}" after the start
RECURSIVE BraceScan_FirstClose(_, _, _, _)
BraceScan_FirstClose(clean_text, start_idx, end_idx, tried) ==
    IF start_idx # -1 /\ start_idx < end_idx
    THEN LET close == find(clean_text, "}", start_idx)
             candidate == slice(clean_text, start_idx, close + 1)
         IN  IF json_loads(candidate) # None
             THEN [ tried |-> Append(tried, start_idx),
                    value |-> json_loads(candidate) ]
             ELSE BraceScan_FirstClose(clean_text,
                                       find(clean_text, "{", start_idx + 1),
                                       end_idx, Append(tried, start_idx))
    ELSE [ tried |-> tried, value |-> None ]

\* the while loop of lines 323-330
RECURSIVE BraceScan(_, _, _, _)
BraceScan(clean_text, start_idx, end_idx, tried) ==
    IF start_idx # -1 /\ start_idx < end_idx
    THEN LET candidate == slice(clean_text, start_idx, end_idx + 1)
         IN  IF json_loads(candidate) # None
             THEN [ tried |-> Append(tried, start_idx),
                    value |-> json_loads(candidate) ]
             ELSE BraceScan(clean_text, find(clean_text, "{", start_idx + 1),
                            end_idx, Append(tried, start_idx))
    ELSE [ tried |-> tried, value |-> None ]

\* a scan that begins at the last "{" of the text
Scan_LastOpen(clean_text) ==
    IF rfind(clean_text, "}") # -1
    THEN BraceScan(clean_text, rfind(clean_text, "{"),
                   rfind(clean_text, "}"), << >>)
    ELSE [ tried |-> << >>, value |-> None ]

\* lines 320-330
Scan(clean_text) ==
    IF rfind(clean_text, "}") # -1
    THEN BraceScan(clean_text, find(clean_text, "{", 0),
                   rfind(clean_text, "}"), << >>)
    ELSE [ tried |-> << >>, value |-> None ]

\* a fallback that keeps the cleaned text
RawOutput_Cleaned(agent_text) ==
    VDict(<< Item(K_raw_output, VStr(CleanText(agent_text))) >>)

\* line 338
RawOutput(agent_text) == VDict(<< Item(K_raw_output, VStr(agent_text)) >>)

\* lines 308-338: structured_data for an agent text
Extract(agent_text) ==
    LET clean_text == CleanText(agent_text)
        scanned == Scan(clean_text).value
        loaded == IF scanned = None THEN json_loads(clean_text) ELSE scanned
    IN  IF loaded = None THEN RawOutput(agent_text) ELSE TheVal(loaded)

(***************************************************************************)
(* Lines 184-204 of the handover: the text is the first part of the first  *)
(* event, or the serialised answer; it is cleaned as above and handed to   *)
(* json.loads as a whole.  The result is what save_context receives, if    *)
(* anything.                                                               *)
(***************************************************************************)
\* dict.get(key, default)
GetOr(d, key, default) == IF HasKey(d, key) THEN Lookup(d, key) ELSE default

\* lines 184-189
HandoverText(h_data) ==
    IF h_data.type = "list" /\ h_data.val # << >>
    THEN LET parts == GetOr(GetOr(Head(h_data.val), K_content, VDict(<< >>)),
                            K_parts, VList(<< >>))
         IN  IF Truthy(parts)
             THEN GetOr(Head(parts.val), K_text, VStr(json_dumps(h_data))).val
             ELSE json_dumps(h_data)
    ELSE json_dumps(h_data)

\* lines 192-204: the argument of save_context, or None when it is not called
HandoverSaved(h_data) ==
    LET h_text == HandoverText(h_data)
        h_structured == json_loads(CleanText(h_text))
    IN  IF h_structured = None
        THEN Some(VDict(<< Item(K_plant_status, VStr(HandoverRaw)),
                           Item(K_comment, VStr(h_text)) >>))
        ELSE IF TheVal(h_structured).type = "dict" THEN h_structured
        ELSE None


(***************************************************************************)
(* Answers of POST /run for the extraction.  A text is either a short text *)
(* over a few characters or the serialisation of an object between two     *)
(* pieces of prose, fenced or not; an answer carries one text in one part  *)
(* of one event, or is a list of events with and without content, parts    *)
(* and text, or is a map.                                                  *)
(***************************************************************************)
\* characters of a short text
MaxText == 3
\* characters of the prose before and after an object
MaxProse == 2
\* parts of a content, events of an answer
MaxItems == 2

SeqsUpTo(S, n) == UNION { [1 .. k -> S] : k \in 0 .. n }

CharAlphabet == { "{", "}", "[", "]", "\"", "a", "1", " " }
CharTexts == SeqsUpTo(CharAlphabet, MaxText)

ProseAlphabet == { "a", "{", "}" }
Prose == SeqsUpTo(ProseAlphabet, MaxProse)

One == VInt(<< "1" >>)
Objects ==
    { VDict(<< >>),
      VDict(<< Item(<< "a" >>, One) >>),
      VDict(<< Item(<< "a" >>, VDict(<< Item(<< "b" >>, One) >>)) >>),
      VDict(<< Item(<< "a" >>, VStr(<< "}" >>)) >>),
      VDict(<< Item(K_plant_status, VStr(<< "o", "k" >>)),
               Item(K_comment, VStr(<< "{" >>)) >>) }

\* the text between a fence opener and a fence closer
fence(text, fenced) ==
    IF fenced THEN FenceOpen \o text \o FenceClose ELSE text

Wrapped(prefix, O, suffix, fenced) ==
    prefix \o fence(json_dumps(O), fenced) \o suffix

WrappedTexts ==
    { Wrapped(prefix, O, suffix, fenced) :
        prefix \in Prose, O \in Objects, suffix \in Prose, fenced \in BOOLEAN }

\* a part with a text, an event with parts
TextPart(text) == VDict(<< Item(K_text, VStr(text)) >>)
PartsEvent(parts) ==
    VDict(<< Item(K_content, VDict(<< Item(K_parts, VList(parts)) >>)) >>)

\* a part without text and the two halves of an object
PartChoices ==
    { VDict(<< >>),
      TextPart(<< "{", "\"", "a", "\"", ":" >>),
      TextPart(<< "1", "}" >>) }

\* an event without content, with an empty content, with a content without
\* parts, with one part
EventChoices ==
    { VDict(<< >>),
      VDict(<< Item(K_content, VDict(<< >>)) >>),
      VDict(<< Item(K_content,
                    VDict(<< Item(<< "r", "o", "l", "e" >>, VStr(<< "m" >>)) >>)) >>) }
    \cup { PartsEvent(<< part >>) : part \in PartChoices }

Responses ==
    { VList(<< PartsEvent(<< TextPart(text) >>) >>) :
        text \in CharTexts \cup WrappedTexts }
    \cup { VList(<< PartsEvent(parts) >>) : parts \in SeqsUpTo(PartChoices, MaxItems) }
    \cup { VList(evs) : evs \in SeqsUpTo(EventChoices, MaxItems) }
    \cup { VDict(<< Item(<< "d" >>, VStr(<< "a" >>)) >>) }

\* lines 287-349: structured_data for a 200 answer of these shapes
StructuredData(data) == Extract(AgentText(data))

(***************************************************************************)
(* The main call answered 200 with a JSON body, lines 280-349, on the text *)
(* itself: the agent text is extracted and a map with plant_status is      *)
(* handed to save_context.                                                 *)
(***************************************************************************)
MainSuccessText ==
    /\ pc = "main_wait"
    /\ \E d \in AnswerMinutes : now' = now + d
    /\ \E data \in Responses :
        LET x == StructuredData(data) IN
        /\ events' = Append(Append(events, Event("main_resp", None, 200)),
                             Event("main_body", None, data))
        /\ structured_data' = Some(x)
        /\ IF x.type = "dict" /\ HasKey(x, K_plant_status)
           THEN /\ contextFile' = Truncated
                /\ io' = [ file |-> "context",
                           data |-> ContextRecord(ContextOf(Named(x), now')),
                           ret |-> "log_sink",
                           detached |-> FALSE ]
                /\ pc' = "writing"
           ELSE /\ pc' = "log_sink"
                /\ UNCHANGED << contextFile, io >>
    /\ UNCHANGED << attempt, CURRENT_SESSION_ID, CURRENT_SESSION_START,
                    LAST_RUN_TIME, sessionFile, execLog, nextId, cycles,
                    crashes >>
    /\ UNCHANGED << quiet_window, webIo, requests, monitor >>

(***************************************************************************)
(* The handover call answered 200 with a JSON body, lines 177-204, on the  *)
(* text itself.                                                            *)
(***************************************************************************)
HandoverResponseText ==
    /\ pc = "handover_wait"
    /\ \E d \in AnswerMinutes : now' = now + d
    /\ \E h_data \in Responses :
        LET saved == HandoverSaved(h_data) IN
        /\ events' = Append(events, Event("handover_ok", None, h_data))
        /\ IF saved # None
           THEN /\ contextFile' = Truncated
                /\ io' = [ file |-> "context",
                           data |-> ContextRecord(
                                        ContextOf(Named(TheVal(saved)), now')),
                           ret |-> "handover_clear",
                           detached |-> FALSE ]
                /\ pc' = "writing"
           ELSE /\ pc' = "handover_clear"
                /\ UNCHANGED << contextFile, io >>
    /\ UNCHANGED << attempt, CURRENT_SESSION_ID, CURRENT_SESSION_START,
                    LAST_RUN_TIME, sessionFile, execLog, nextId,
                    structured_data, cycles, crashes >>
    /\ UNCHANGED << quiet_window, webIo, requests, monitor >>

(***************************************************************************)
(* The extraction on its own: the scheduler waits for the answer of the    *)
(* main call on the session it has just created, or for the answer of the  *)
(* handover call on a session that has reached SESSION_LIFETIME_DAYS.      *)
(***************************************************************************)
InitExtract ==
    /\ CURRENT_SESSION_ID = Some(1)
    /\ CURRENT_SESSION_START = Some(InitialClock)
    /\ sessionFile = save_session_id(Some(1), Some(InitialClock), InitialClock)
    /\ LAST_RUN_TIME = None
    /\ contextFile = Absent
    /\ execLog = << >>
    /\ nextId = 2
    /\ io = NoIo
    /\ structured_data = None
    /\ attempt = 0
    /\ crashes = 0
    /\ quiet_window = [start |-> START_QUIET_HOUR, end |-> END_QUIET_HOUR]
    /\ webIo = NoIo
    /\ requests = 0
    /\ monitor = "idle"
    /\ \/ /\ pc = "main_wait"
          /\ now = InitialClock
          /\ cycles = 1
          /\ events = << Event("restored", None, None),
                         Event("create", None, None),
                         Event("created", Some(1), None),
                         Event("save_session", Some(1), None),
                         Event("main", Some(1), None) >>
       \/ /\ pc = "handover_wait"
          /\ now = InitialClock + SESSION_LIFETIME_DAYS * MinutesPerDay
          /\ cycles = 2
          /\ events = << Event("handover", Some(1), None) >>

NextExtract ==
    \/ MainSuccessText
    \/ HandoverResponseText
    \/ FinishWrite
    \/ LogSink

SpecExtract == InitExtract /\ [][NextExtract]_vars


(***************************************************************************)
(* Reading the answer the extraction has worked on.                        *)
(***************************************************************************)
\* the main call has been answered and its text extracted
MainExtracted == structured_data # None /\ Idx("main_body") # {}
\* the body of that answer
MainBody == events[Max(Idx("main_body"))].arg
IsProse(s) == \A i \in 1 .. Len(s) : s[i] \in ProseAlphabet
\* the ways to read text t as prefix + fence(json(O)) + suffix: the length
\* of the prefix, the object, fenced or not
Splits(t) ==
    { sp \in (0 .. MaxProse) \X Objects \X BOOLEAN :
        LET body == fence(json_dumps(sp[2]), sp[3]) IN
        /\ sp[1] + Len(body) <= Len(t)
        /\ Len(t) - sp[1] - Len(body) <= MaxProse
        /\ SubSeq(t, sp[1] + 1, sp[1] + Len(body)) = body
        /\ IsProse(SubSeq(t, 1, sp[1]))
        /\ IsProse(SubSeq(t, sp[1] + Len(body) + 1, Len(t))) }
\* the suffix of a split of t
SuffixOf(t, sp) ==
    SubSeq(t, sp[1] + Len(fence(json_dumps(sp[2]), sp[3])) + 1, Len(t))
HasChar(s, c) == \E i \in 1 .. Len(s) : s[i] = c

(***************************************************************************)
(* C21 as stated: whenever the agent text is prefix + fence(json(O)) +     *)
(* suffix for an object O and two pieces of prose over an alphabet with    *)
(* braces, fenced or not, the extraction yields O.                         *)
(***************************************************************************)
C21_RoundTrip ==
    MainExtracted =>
        \A sp \in Splits(AgentText(MainBody)) :
            TheVal(structured_data) = sp[2]

(***************************************************************************)
(* C21 as amended: whenever the agent text is prefix + fence(json(O)) +    *)
(* suffix for an object O, a piece of prose with or without braces before  *)
(* it and a piece of prose without a closing brace after it, fenced or     *)
(* not, the extraction yields O.                                           *)
(***************************************************************************)
C21_RoundTripNoBraceAfter ==
    MainExtracted =>
        \A sp \in Splits(AgentText(MainBody)) :
            ~HasChar(SuffixOf(AgentText(MainBody), sp), "}") =>
                TheVal(structured_data) = sp[2]

\* a fenced nested object after prose that opens and closes braces and
\* before prose that opens one has been extracted
C21_Witness ==
    /\ MainExtracted
    /\ \E sp \in Splits(AgentText(MainBody)) :
        /\ sp[3]
        /\ sp[2] = VDict(<< Item(<< "a" >>, VDict(<< Item(<< "b" >>, One) >>)) >>)
        /\ SubSeq(AgentText(MainBody), 1, sp[1]) = << "}", "{" >>
        /\ SuffixOf(AgentText(MainBody), sp) = << "{" >>
        /\ TheVal(structured_data) = sp[2]


\* no piece of text t is a JSON text
NoJson(t) ==
    \A i \in 1 .. Len(t) : \A j \in i .. Len(t) :
        json_loads(SubSeq(t, i, j)) = None
\* the map {"raw_output": t}
RawOf(t) == [ type |-> "dict",
             val |-> << [ k |-> K_raw_output, v |-> [type |-> "str", val |-> t] ] >> ]
\* the main call has been answered with a JSON body
MainAnswered == Idx("main_body") # {}

(***************************************************************************)
(* C22: when no piece of the agent text is a JSON text, the extraction     *)
(* yields {"raw_output": text} with the text as it was received, the cycle *)
(* goes on to the log sink and ends as a completed one, and the entry the  *)
(* sink saves holds that result.                                           *)
(***************************************************************************)
C22_NoJsonGivesRawOutput ==
    (MainAnswered /\ NoJson(AgentText(MainBody))) =>
        /\ pc \in { "log_sink", "done" }
        /\ pc = "log_sink" =>
              structured_data = Some(RawOf(AgentText(MainBody)))
        /\ pc = "done" =>
              /\ Idx("completed") # {}
              /\ events[Len(events)].arg = "saved" =>
                    /\ execLog # << >>
                    /\ execLog[Len(execLog)].data = RawOf(AgentText(MainBody))

\* a text with braces around prose and a blank before it has been logged as
\* raw output
C22_Witness ==
    /\ MainAnswered
    /\ AgentText(MainBody) = << " ", "{", "a" >>
    /\ pc = "done"
    /\ execLog # << >>
    /\ execLog[Len(execLog)].data = RawOf(<< " ", "{", "a" >>)


\* the handover call has been answered 200 and its answer dealt with
HandoverAnswered == Idx("handover_ok") # {} /\ pc = "handover_clear"
\* the body of that answer
HandoverBody == events[Max(Idx("handover_ok"))].arg

(***************************************************************************)
(* C23: after a 200 handover answer that carries text from which the       *)
(* extraction of the main run (all text parts of all events, fence, brace  *)
(* scan) obtains a JSON object, the context file holds the snapshot of     *)
(* that object.                                                            *)
(***************************************************************************)
C23_HandoverExtractsAsMainRun ==
    HandoverAnswered =>
        LET x == StructuredData(HandoverBody) IN
        (/\ ConcatText(HandoverBody) # << >>
         /\ x.type = "dict"
         /\ ~HasKey(x, K_raw_output)) =>
            contextFile = ContextRecord(ContextOf(Named(x), now))


(***************************************************************************)
(* C24: whatever the log sink does (it saves, it is skipped, its client or *)
(* its write raises), the step from the sink ends the cycle as a completed *)
(* one: run_job is done, the context file and the session, in memory and   *)
(* on file, are what they were before the sink, the retry counter has not  *)
(* moved, and a cycle that has completed has sent its last prompt (a       *)
(* crash of the process is not a step of the sink).                        *)
(***************************************************************************)
C24_SinkFailureKeepsCycle ==
    [][ /\ (pc = "log_sink" /\ crashes' = crashes) =>
            /\ pc' = "done"
            /\ events'[Len(events')].op = "completed"
            /\ CURRENT_SESSION_ID # None
            /\ UNCHANGED << contextFile, sessionFile, CURRENT_SESSION_ID,
                            CURRENT_SESSION_START, attempt, io >>
        /\ Idx("completed") # {} =>
            /\ pc = "done"
            /\ \A j \in Requests : j < Max(Idx("completed")) ]_vars

\* a cycle has written the context file, then its sink has raised, and the
\* cycle is over with the session and the context in place
C24_Witness ==
    /\ pc = "done"
    /\ events[Len(events)] = Event("completed", CURRENT_SESSION_ID, "error")
    /\ Idx("save_context") # {}
    /\ CURRENT_SESSION_ID # None
    /\ sessionFile.kind = "record"
    /\ contextFile.kind = "record"
    /\ execLog = << >>


\* the parts of an event: those of its content, if it has one with parts
PartsOf(event) ==
    IF HasKey(event, K_content) /\ HasKey(Lookup(event, K_content), K_parts)
    THEN Lookup(Lookup(event, K_content), K_parts).val
    ELSE << >>
\* the parts of all events, in event order and then part order
RECURSIVE AllParts(_)
AllParts(evs) ==
    IF evs = << >> THEN << >> ELSE PartsOf(Head(evs)) \o AllParts(Tail(evs))
HasText(part) == HasKey(part, K_text)
RECURSIVE JoinTexts(_)
JoinTexts(parts) ==
    IF parts = << >> THEN << >>
    ELSE Lookup(Head(parts), K_text).val \o JoinTexts(Tail(parts))
\* the text fields of all parts of all events of an answer, joined
Joined(data) ==
    IF data.type = "list"
    THEN JoinTexts(SelectSeq(AllParts(data.val), HasText))
    ELSE << >>

(***************************************************************************)
(* C25 as stated: the text the extraction works on is the text fields of   *)
(* all parts of all events of the answer, joined in event order and then   *)
(* part order, and nothing else, so that the structured result is the      *)
(* extraction of that text; events without content, contents without parts *)
(* and parts without text add nothing.                                     *)
(***************************************************************************)
C25_TextIsJoinedParts ==
    MainExtracted =>
        structured_data = Some(Extract(Joined(MainBody)))

(***************************************************************************)
(* C25 as amended: the text the extraction works on is the text fields of  *)
(* all parts of all events of the answer, joined in event order and then   *)
(* part order, when that text is not empty; when it is empty (no event     *)
(* carries text, or the answer is not a list) it is the JSON serialisation *)
(* of the whole answer.  Events without content, contents without parts    *)
(* and parts without text add nothing.                                     *)
(***************************************************************************)
C25_TextIsJoinedPartsOrAnswer ==
    MainExtracted =>
        structured_data =
            Some(Extract(IF Joined(MainBody) = << >>
                         THEN json_dumps(MainBody)
                         ELSE Joined(MainBody)))

\* an object spread over two parts of one event has been extracted
C25_Witness ==
    /\ MainExtracted
    /\ MainBody = VList(<< PartsEvent(<< TextPart(<< "{", "\"", "a", "\"", ":" >>),
                                         TextPart(<< "1", "}" >>) >>) >>)
    /\ structured_data = Some(VDict(<< Item(<< "a" >>, One) >>))


\* the indices of character c in s, counted from 0
IndicesOf(s, c) == { i \in 0 .. Len(s) - 1 : s[i + 1] = c }
\* a finite set of integers as an increasing sequence
RECURSIVE Ascending(_)
Ascending(S) ==
    IF S = {} THEN << >> ELSE << Min(S) >> \o Ascending(S \ { Min(S) })
\* the cleaned agent text of the answer
MainClean == CleanText(AgentText(MainBody))
\* the closing index of the scan: the last "}"
ScanEnd == Max(IndicesOf(MainClean, "}"))
\* the candidate start indices: every "{" strictly before the closing index
ScanStarts == { i \in IndicesOf(MainClean, "{") : i < ScanEnd }
\* the start indices whose candidate parses
ScanParsing ==
    { i \in ScanStarts : json_loads(slice(MainClean, i, ScanEnd + 1)) # None }

(***************************************************************************)
(* C26: with the closing index at the last "}" of the cleaned text, the    *)
(* scan hands to the parser the candidates that start at a "{" strictly    *)
(* before it, in increasing order, and stops at the first that parses: the *)
(* start indices tried are those up to the smallest parsing one, the       *)
(* result of the extraction is the parse of that candidate, and with no    *)
(* parsing candidate every start index is tried and the scan has no value. *)
(***************************************************************************)
C26_ScanSmallestParsingStart ==
    (MainExtracted /\ IndicesOf(MainClean, "}") # {}) =>
        IF ScanParsing # {}
        THEN /\ Scan(MainClean).tried =
                    Ascending({ i \in ScanStarts : i <= Min(ScanParsing) })
             /\ Scan(MainClean).value =
                    json_loads(slice(MainClean, Min(ScanParsing), ScanEnd + 1))
             /\ structured_data = Scan(MainClean).value
        ELSE /\ Scan(MainClean).tried = Ascending(ScanStarts)
             /\ Scan(MainClean).value = None

\* the text {{"a": 1} has been extracted: the candidate at index 0 fails,
\* the one at index 1 parses and is the result
C26_Witness ==
    /\ MainExtracted
    /\ AgentText(MainBody) = << "{" >> \o json_dumps(VDict(<< Item(<< "a" >>, One) >>))
    /\ ScanStarts = { 0, 1 }
    /\ ScanParsing = { 1 }
    /\ Scan(MainClean).tried = << 0, 1 >>
    /\ structured_data = Some(VDict(<< Item(<< "a" >>, One) >>))


(***************************************************************************)
(* C27: the result of the extraction handed to the log sink is a map for   *)
(* every agent text: a parsed JSON object or the raw_output fallback,      *)
(* never an array, a number or a string.  Stated for the answers that      *)
(* carry a text.                                                           *)
(***************************************************************************)
C27_ResultIsMap ==
    (MainExtracted /\ ConcatText(MainBody) # << >>) =>
        TheVal(structured_data).type = "dict"


\* the handover prompts sent in the cycle so far
HandoverPrompts == Idx("handover")

(***************************************************************************)
(* C28: at most one handover prompt is sent per cycle, the retry after a   *)
(* 404 or 500 on the main run included.                                    *)
(***************************************************************************)
C28_OneHandoverPerCycle == Cardinality(HandoverPrompts) <= 1


\* the session file holds the record of the session the process holds
RecordOfCurrent ==
    /\ sessionFile.kind = "record"
    /\ sessionFile.session_id = CURRENT_SESSION_ID
\* elapsed time of the session held, in minutes
SessionAge == now - TheVal(CURRENT_SESSION_START)

(***************************************************************************)
(* C29: the creation time of a session is fixed at creation.  Over every   *)
(* step during which the same session id stays current, the creation time  *)
(* in memory is unchanged, a session record that names this session is not *)
(* rewritten, and the measured age of the session does not decrease.       *)
(***************************************************************************)
C29_CreationTimeFixed ==
    [][ (CURRENT_SESSION_ID # None /\ CURRENT_SESSION_ID' = CURRENT_SESSION_ID) =>
            /\ CURRENT_SESSION_START' = CURRENT_SESSION_START
            /\ RecordOfCurrent => sessionFile' = sessionFile
            /\ CURRENT_SESSION_START # None => SessionAge' >= SessionAge ]_vars

\* a later cycle has completed a run on the session created at the first
\* start, whose record and creation time are those of its creation
C29_Witness ==
    /\ pc = "done"
    /\ now > InitialClock
    /\ Idx("completed") # {}
    /\ CURRENT_SESSION_ID = Some(1)
    /\ CURRENT_SESSION_START = Some(InitialClock)
    /\ sessionFile = save_session_id(Some(1), Some(InitialClock), InitialClock)


\* the cycle under way is the immediate run of a process start
StartupCycle == events # << >> /\ events[1].op = "restored"

(***************************************************************************)
(* C30: the immediate run at process startup is never suppressed by the    *)
(* quiet-hours gate.  The last-successful-run time is empty when the gate  *)
(* of that run is evaluated, and the run is not skipped, whatever the hour *)
(* and however recent the last run before the restart.                     *)
(***************************************************************************)
C30_StartupRunNotSuppressed ==
    StartupCycle =>
        /\ pc = "gate" => LAST_RUN_TIME = None
        /\ Idx("skipped") = {}

\* after a restart inside the quiet window, less than QUIET_INTERVAL_MINUTES
\* after a run that was logged, the immediate run has sent its prompt
C30_Witness ==
    /\ StartupCycle
    /\ crashes = 1
    /\ is_quiet_hour(HourOf(now))
    /\ execLog # << >>
    /\ now - execLog[Len(execLog)].timestamp < QUIET_INTERVAL_MINUTES
    /\ Idx("main") # {}

=============================================================================
